---- MODULE Spec2Model ----
(***************************************************************************)
(* A model of the streaming gateway of src/server.js (lines 1-1227, the    *)
(* current revision of the server).                                        *)
(*                                                                         *)
(* Text is a sequence of characters.  The special characters of the code   *)
(* (braces, brackets, colon, comma, quote, backslash, space, newline) are  *)
(* single characters; a run of                                             *)
(* letters that no code path looks into ("tool_calls", "lookup", "Hel")    *)
(* is one element of the sequence, a word; a code fence is one element too.       *)
(***************************************************************************)
EXTENDS Integers, Sequences, FiniteSets, TLC

\* ------------------------------------------------------------------ bounds
\* content-bearing or other lines the upstream produces in one response
MaxLines == 3
\* fragments the lookup text is divided into (SpecLookup)
MaxFrags == 3

\* --------------------------------------------------------------- characters
Q == "\""
BS == "\\"
LB == "{"
RB == "}"
LK == "["
RK == "]"
COLON == ":"
COMMA == ","
SP == " "
NLC == "\n"
FENCE == "<fence>"

Whitespace == {SP, NLC}

\* the value undefined of JavaScript, and the other shapes of a JSON value
Undefined == [t |-> "undef", s |-> <<>>, kv |-> <<>>, el |-> <<>>]
StrVal(s) == [t |-> "str", s |-> s, kv |-> <<>>, el |-> <<>>]
LitVal(w) == [t |-> "lit", s |-> <<w>>, kv |-> <<>>, el |-> <<>>]
ObjVal(kv) == [t |-> "obj", s |-> <<>>, kv |-> kv, el |-> <<>>]
ArrVal(el) == [t |-> "arr", s |-> <<>>, kv |-> <<>>, el |-> el]

\* ------------------------------------------------------------ String methods
\* String.prototype.trim
RECURSIVE TrimLeft(_)
TrimLeft(s) ==
  IF s # <<>> /\ Head(s) \in Whitespace THEN TrimLeft(Tail(s)) ELSE s

RECURSIVE TrimRight(_)
TrimRight(s) ==
  IF s # <<>> /\ s[Len(s)] \in Whitespace
  THEN TrimRight(SubSeq(s, 1, Len(s) - 1)) ELSE s

Trim(s) == TrimRight(TrimLeft(s))

\* String.prototype.startsWith
StartsWith(s, p) == Len(s) >= Len(p) /\ SubSeq(s, 1, Len(p)) = p

\* s holds p at index i (1-based)
MatchAt(s, p, i) == i + Len(p) - 1 <= Len(s) /\ SubSeq(s, i, i + Len(p) - 1) = p

\* String.prototype.indexOf, 1-based; 0 when absent (-1 in the code)
IndexOf(s, p) ==
  LET hits == {i \in 1..Len(s) : MatchAt(s, p, i)}
  IN IF hits = {} THEN 0 ELSE CHOOSE i \in hits : \A j \in hits : i <= j

\* the concatenation of the sequences ss[1], ..., ss[Len(ss)]
RECURSIVE Concat(_)
Concat(ss) ==
  IF Len(ss) = 0 THEN <<>>
  ELSE IF Len(ss) = 1 THEN ss[1]
  ELSE Concat(SubSeq(ss, 1, Len(ss) \div 2)) \o Concat(SubSeq(ss, Len(ss) \div 2 + 1, Len(ss)))

Min(S) == CHOOSE x \in S : \A y \in S : x <= y
Max(S) == CHOOSE x \in S : \A y \in S : x >= y

\* ------------------------------------------------------- extractBalancedJson
\* the four locals of extractBalancedJson, and what it has returned;
\* start = 0 stands for the code's -1
ExtractInit == [depth |-> 0, inString |-> FALSE, escape |-> FALSE, start |-> 0,
                found |-> FALSE, s |-> <<>>]

\* one pass of the for loop, on the character at index i (1-based)
ExtractStep(st, str, i) ==
  IF st.found THEN st
  ELSE IF st.escape THEN [st EXCEPT !.escape = FALSE]
  ELSE IF str[i] = BS THEN [st EXCEPT !.escape = TRUE]
  ELSE IF str[i] = Q THEN [st EXCEPT !.inString = ~@]
  ELSE IF st.inString THEN st
  ELSE IF str[i] = LB
    THEN [st EXCEPT !.start = IF st.depth = 0 THEN i ELSE @, !.depth = @ + 1]
  ELSE IF str[i] = RB
    THEN IF st.depth - 1 = 0 /\ st.start # 0
         THEN [st EXCEPT !.depth = @ - 1, !.found = TRUE, !.s = SubSeq(str, st.start, i)]
         ELSE [st EXCEPT !.depth = @ - 1]
  ELSE st

\* the passes for the n characters from index i on, in order
RECURSIVE ExtractRun(_, _, _, _)
ExtractRun(st, str, i, n) ==
  IF n <= 0 THEN st
  ELSE IF n = 1 THEN ExtractStep(st, str, i)
  ELSE LET left == ExtractRun(st, str, i, n \div 2) IN
       IF left.found THEN left ELSE ExtractRun(left, str, i + n \div 2, n - n \div 2)

extractBalancedJson(str, startIdx) ==
  LET st == ExtractRun(ExtractInit, str, startIdx, Len(str) - startIdx + 1)
  IN [found |-> st.found, s |-> st.s]

\* ------------------------------------------------------------------ JSON.parse
\* words that are JSON literals
Literals == {"null", "0", "1"}
\* words whose first letter makes backslash + word a valid escape (\n, \t, \f)
EscapableWords == {"tool_calls", "name", "null", "type", "function"}
\* marks a decoded escape inside a string value
ESC == "<esc>"

ParseFail == [ok |-> FALSE, v |-> Undefined, i |-> 0]

RECURSIVE SkipWs(_, _)
SkipWs(s, i) == IF i <= Len(s) /\ s[i] \in Whitespace THEN SkipWs(s, i + 1) ELSE i

\* the character at m, inside a string literal that opens before j, is escaped:
\* an odd number of backslashes stands right before it
Escaped(s, j, m) ==
  IF m = j \/ s[m - 1] # BS THEN FALSE
  ELSE (m - 1 - Max({j - 1} \cup {x \in j..(m - 1) : s[x] # BS})) % 2 = 1

\* what the character at m of a string literal stands for; <<"<bad>">> when the
\* literal is not valid JSON
BadChar == <<"<bad>">>
Decoded(s, j, m) ==
  IF Escaped(s, j, m)
  THEN IF s[m] \in {Q, BS} THEN <<s[m]>>
       ELSE IF s[m] = "n" THEN <<NLC>>
       ELSE IF s[m] \in EscapableWords THEN <<ESC, s[m]>>
       ELSE BadChar
  ELSE IF s[m] = BS THEN <<>>
  ELSE IF s[m] = NLC THEN BadChar
  ELSE <<s[m]>>

\* the body of a string literal from index j, after the opening quote
ParseStringBody(s, j) ==
  LET closers == {m \in j..Len(s) : s[m] = Q /\ ~Escaped(s, j, m)} IN
  IF closers = {} THEN ParseFail
  ELSE LET close == Min(closers)
           parts == [m \in 1..(close - j) |-> Decoded(s, j, j + m - 1)] IN
    IF \E m \in 1..(close - j) : parts[m] = BadChar THEN ParseFail
    ELSE [ok |-> TRUE, v |-> StrVal(Concat(parts)), i |-> close + 1]

\* assignment of a property while an object literal is parsed: a repeated key
\* keeps its place and takes the later value
PutKV(kv, k, v) ==
  IF \E n \in 1..Len(kv) : kv[n].k = k
  THEN [n \in 1..Len(kv) |-> IF kv[n].k = k THEN [k |-> k, v |-> v] ELSE kv[n]]
  ELSE Append(kv, [k |-> k, v |-> v])

RECURSIVE ParseValue(_, _)
RECURSIVE ParseMembers(_, _, _)
RECURSIVE ParseElements(_, _, _)

ParseValue(s, i0) ==
  LET i == SkipWs(s, i0) IN
  IF i > Len(s) THEN ParseFail
  ELSE IF s[i] = Q THEN ParseStringBody(s, i + 1)
  ELSE IF s[i] \in Literals THEN [ok |-> TRUE, v |-> LitVal(s[i]), i |-> i + 1]
  ELSE IF s[i] = LB
    THEN LET j == SkipWs(s, i + 1) IN
         IF j <= Len(s) /\ s[j] = RB
         THEN [ok |-> TRUE, v |-> ObjVal(<<>>), i |-> j + 1]
         ELSE ParseMembers(s, j, <<>>)
  ELSE IF s[i] = LK
    THEN LET j == SkipWs(s, i + 1) IN
         IF j <= Len(s) /\ s[j] = RK
         THEN [ok |-> TRUE, v |-> ArrVal(<<>>), i |-> j + 1]
         ELSE ParseElements(s, j, <<>>)
  ELSE ParseFail

\* "key": value pairs from index i0 up to the closing brace
ParseMembers(s, i0, kv) ==
  LET i == SkipWs(s, i0) IN
  IF i > Len(s) \/ s[i] # Q THEN ParseFail
  ELSE LET key == ParseStringBody(s, i + 1) IN
    IF ~key.ok THEN ParseFail
    ELSE LET c == SkipWs(s, key.i) IN
      IF c > Len(s) \/ s[c] # COLON THEN ParseFail
      ELSE LET val == ParseValue(s, c + 1) IN
        IF ~val.ok THEN ParseFail
        ELSE LET n == SkipWs(s, val.i)
                 kv2 == PutKV(kv, key.v.s, val.v) IN
          IF n > Len(s) THEN ParseFail
          ELSE IF s[n] = COMMA THEN ParseMembers(s, n + 1, kv2)
          ELSE IF s[n] = RB THEN [ok |-> TRUE, v |-> ObjVal(kv2), i |-> n + 1]
          ELSE ParseFail

\* array elements from index i0 up to the closing bracket
ParseElements(s, i0, el) ==
  LET val == ParseValue(s, i0) IN
  IF ~val.ok THEN ParseFail
  ELSE LET n == SkipWs(s, val.i)
           el2 == Append(el, val.v) IN
    IF n > Len(s) THEN ParseFail
    ELSE IF s[n] = COMMA THEN ParseElements(s, n + 1, el2)
    ELSE IF s[n] = RK THEN [ok |-> TRUE, v |-> ArrVal(el2), i |-> n + 1]
    ELSE ParseFail

\* JSON.parse: ok = FALSE stands for the SyntaxError it throws
JSONParse(s) ==
  LET r == ParseValue(s, 1) IN
  IF r.ok /\ SkipWs(s, r.i) > Len(s) THEN [ok |-> TRUE, v |-> r.v]
  ELSE [ok |-> FALSE, v |-> Undefined]

\* --------------------------------------------------------------- JSON.stringify
EscapeChar(c) ==
  IF c = Q THEN <<BS, Q>>
  ELSE IF c = BS THEN <<BS, BS>>
  ELSE IF c = NLC THEN <<BS, "n">>
  ELSE IF c = ESC THEN <<BS>>
  ELSE <<c>>

\* the characters of a string value as they stand in a JSON string literal
EscapeStr(s) == Concat([i \in 1..Len(s) |-> EscapeChar(s[i])])

RECURSIVE Stringify(_)
RECURSIVE StringifyMembers(_)
RECURSIVE StringifyElements(_)

Stringify(v) ==
  IF v.t = "str" THEN <<Q>> \o EscapeStr(v.s) \o <<Q>>
  ELSE IF v.t = "lit" THEN v.s
  ELSE IF v.t = "obj" THEN <<LB>> \o StringifyMembers(v.kv) \o <<RB>>
  ELSE IF v.t = "arr" THEN <<LK>> \o StringifyElements(v.el) \o <<RK>>
  ELSE <<>>

StringifyMembers(kv) ==
  IF kv = <<>> THEN <<>>
  ELSE <<Q>> \o EscapeStr(Head(kv).k) \o <<Q, COLON>> \o Stringify(Head(kv).v)
       \o (IF Len(kv) > 1 THEN <<COMMA>> ELSE <<>>) \o StringifyMembers(Tail(kv))

StringifyElements(el) ==
  IF el = <<>> THEN <<>>
  ELSE Stringify(Head(el))
       \o (IF Len(el) > 1 THEN <<COMMA>> ELSE <<>>) \o StringifyElements(Tail(el))


\* ------------------------------------------------------------ parseToolCalls
\* property read obj[key]; undefined on anything that is not an object with it
Get(v, key) ==
  IF v.t = "obj" /\ \E n \in 1..Len(v.kv) : v.kv[n].k = key
  THEN v.kv[CHOOSE n \in 1..Len(v.kv) : v.kv[n].k = key].v
  ELSE Undefined

\* null and undefined: a property read on them throws a TypeError
Nullish(v) == v.t = "undef" \/ v = LitVal("null")

\* JavaScript truthiness
Truthy(v) ==
  IF v.t = "str" THEN v.s # <<>>
  ELSE IF v.t = "lit" THEN v.s \notin {<<"null">>, <<"0">>}
  ELSE v.t \in {"obj", "arr"}

\* stands for `call_${crypto.randomBytes(12).toString('hex')}`
GeneratedId == StrVal(<<"call_hex">>)

\* the descriptor the two tool_calls strategies build from one list entry
NormalizeCall(tc) ==
  LET fn == Get(tc, <<"function">>)
      fnName == IF Nullish(fn) THEN Undefined ELSE Get(fn, <<"name">>)
      fnArgs == IF Nullish(fn) THEN Undefined ELSE Get(fn, <<"arguments">>)
  IN [id |-> IF Truthy(Get(tc, <<"id">>)) THEN Get(tc, <<"id">>) ELSE GeneratedId,
      type |-> IF Truthy(Get(tc, <<"type">>)) THEN Get(tc, <<"type">>)
               ELSE StrVal(<<"function">>),
      name |-> IF Truthy(fnName) THEN fnName ELSE Get(tc, <<"name">>),
      arguments |-> IF fnArgs.t = "str" THEN fnArgs.s
                    ELSE Stringify(IF Truthy(fnArgs) THEN fnArgs
                                   ELSE IF Truthy(Get(tc, <<"arguments">>))
                                        THEN Get(tc, <<"arguments">>)
                                        ELSE ObjVal(<<>>))]

\* what a strategy returns: calls, or none = TRUE when it falls through;
\* raised = TRUE when an exception leaves it instead
NoCalls == [none |-> TRUE, calls |-> <<>>, raised |-> FALSE]
Calls(cs) == [none |-> FALSE, calls |-> cs, raised |-> FALSE]
Raised == [none |-> TRUE, calls |-> <<>>, raised |-> TRUE]

\* faulty variant: the exception is thrown on
TryCatchRethrows(r) == r

\* try { ... } catch (e) { ... }: an exception raised in the block is logged or
\* dropped and the strategy falls through
TryCatch(r) == IF r.raised THEN NoCalls ELSE r

\* the body shared by strategies 1 and 2 once a candidate has been parsed: the
\* property reads parsed.tool_calls and tc.id raise a TypeError on null
FromToolCallsObject(parsed) ==
  IF Nullish(parsed) THEN Raised
  ELSE LET list == Get(parsed, <<"tool_calls">>) IN
    IF ~(Truthy(list) /\ list.t = "arr") THEN NoCalls
    ELSE IF \E n \in 1..Len(list.el) : Nullish(list.el[n]) THEN Raised
    ELSE Calls([n \in 1..Len(list.el) |-> NormalizeCall(list.el[n])])

\* while (startIdx > 0 && content[startIdx] !== '{') startIdx--, 1-based
WalkBack(content, startIdx) ==
  Max({1} \cup {i \in 1..startIdx : content[i] = LB})

\* the try block of strategies 1 and 2 around a parse result: JSON.parse
\* raises a SyntaxError, the body may raise a TypeError
FromParsed(parsed) ==
  TryCatch(IF parsed.ok THEN FromToolCallsObject(parsed.v) ELSE Raised)

\* if (jsonStr) { try { JSON.parse(jsonStr) ... } }
FromCandidate(jsonStr) ==
  IF jsonStr.found THEN FromParsed(JSONParse(jsonStr.s)) ELSE NoCalls

\* strategy 1 once the marker has been found at toolCallsIdx
MarkerFrom(content, startIdx) ==
  IF content[startIdx] # LB THEN NoCalls
  ELSE FromCandidate(extractBalancedJson(content, startIdx))

\* strategy 1: the "tool_calls" marker
StrategyMarker(content) ==
  LET toolCallsIdx == IndexOf(content, <<Q, "tool_calls", Q>>) IN
  IF toolCallsIdx = 0 THEN NoCalls
  ELSE MarkerFrom(content, WalkBack(content, toolCallsIdx))

\* strategy 2: /```(?:json)?\s*([\s\S]*?)```/i, the body trimmed and parsed
StrategyFence(content) ==
  LET opens == {i \in 1..Len(content) :
                  content[i] = FENCE /\ \E j \in (i + 1)..Len(content) : content[j] = FENCE}
  IN IF opens = {} THEN NoCalls
     ELSE LET open == CHOOSE i \in opens : \A j \in opens : i <= j
              close == CHOOSE j \in (open + 1)..Len(content) :
                         /\ content[j] = FENCE
                         /\ \A m \in (open + 1)..(j - 1) : content[m] # FENCE
              afterTag == IF open + 1 < close /\ content[open + 1] = "json"
                          THEN open + 2 ELSE open + 1
          IN FromParsed(JSONParse(Trim(SubSeq(content, afterTag, close - 1))))

\* /\{\s*"name"\s*:\s*"([^"]+)"\s*,\s*"arguments"\s*:/ matches at index i
SingleCallAt(content, i) ==
  /\ i <= Len(content) /\ content[i] = LB
  /\ LET a == SkipWs(content, i + 1) IN
     /\ MatchAt(content, <<Q, "name", Q>>, a)
     /\ LET b == SkipWs(content, a + 3) IN
        /\ b <= Len(content) /\ content[b] = COLON
        /\ LET c == SkipWs(content, b + 1) IN
           /\ c <= Len(content) /\ content[c] = Q
           /\ \E d \in (c + 2)..Len(content) :
                /\ content[d] = Q
                /\ \A m \in (c + 1)..(d - 1) : content[m] # Q
                /\ LET e == SkipWs(content, d + 1) IN
                   /\ e <= Len(content) /\ content[e] = COMMA
                   /\ LET f == SkipWs(content, e + 1) IN
                      /\ MatchAt(content, <<Q, "arguments", Q>>, f)
                      /\ LET g == SkipWs(content, f + 3) IN
                         g <= Len(content) /\ content[g] = COLON

\* strategy 3: one bare {"name": ..., "arguments": ...} object
SingleFromParsed(parsed) ==
  TryCatch(
    IF ~parsed.ok THEN Raised
    ELSE LET args == Get(parsed.v, <<"arguments">>) IN
      Calls(<<[id |-> GeneratedId,
               type |-> StrVal(<<"function">>),
               name |-> Get(parsed.v, <<"name">>),
               arguments |-> IF args.t = "str" THEN args.s
                             ELSE Stringify(IF Truthy(args) THEN args
                                            ELSE ObjVal(<<>>))]>>))

\* if (jsonStr) { try { JSON.parse(jsonStr) ... } } of strategy 3
SingleFromCandidate(jsonStr) ==
  IF jsonStr.found THEN SingleFromParsed(JSONParse(jsonStr.s)) ELSE NoCalls

StrategySingle(content) ==
  LET hits == {i \in 1..Len(content) : SingleCallAt(content, i)} IN
  IF hits = {} THEN NoCalls
  ELSE SingleFromCandidate(
         extractBalancedJson(content, CHOOSE i \in hits : \A j \in hits : i <= j))

\* parseToolCalls: none = TRUE stands for null
\* the first of the three results that is a return; an exception that leaves
\* a strategy leaves the function and the later strategies do not run
FirstReturn(a, b, c) ==
  IF a.raised \/ ~a.none THEN a ELSE IF b.raised \/ ~b.none THEN b ELSE c

parseToolCalls(content) ==
  IF content = <<>> THEN NoCalls
  ELSE FirstReturn(StrategyMarker(content), StrategyFence(content), StrategySingle(content))


\* ------------------------------------------------------- the streamed response
VARIABLES
  \* the locals of the streaming branch (src/server.js:780-786)
  buffer, fullContent, isFirstChunk, sentContent, isToolCallMode, toolCallBuffer,
  \* the response: the frames written with res.write, and res.writableEnded
  frames, writableEnded,
  \* the upstream body stream: open, ended, errored or destroyed
  readerState,
  \* history: the lines the data handler's loop has handed to its try block
  decoded,
  \* what the upstream has started to send and not yet delivered
  pending,
  \* the lines the upstream has produced, and whether it will produce more
  produced, upstreamClosed,
  \* every character delivered to the data handler so far (history)
  received,
  \* the client has closed the connection
  clientClosed,
  \* the text still to be sent as content fragments (SpecLookup)
  todo, frags,
  \* controller.abort() has been called; Logger.error('Stream Error') was called
  aborted, errorLogged

streamVars == <<buffer, fullContent, isFirstChunk, sentContent, isToolCallMode,
                toolCallBuffer, frames, writableEnded, readerState, decoded>>
envVars == <<pending, produced, upstreamClosed, received, clientClosed, todo, frags>>

VARIABLES
  \* userTokenStore.get('default_user'), NoToken when the slot is empty
  userTokenStore,
  \* conversationStore: the conversation id stored for each user key
  conversationStore,
  \* the requests to /v1/chat/completions: where each one is suspended, what it
  \* carries, what it was answered and the upstream calls made on its behalf
  req

authVars == <<userTokenStore, conversationStore, req>>
cancelVars == <<aborted, errorLogged>>

VARIABLES
  \* one CleanupMap: the entries of the Map it extends, its lastAccess map, and
  \* the time Date.now() returns
  entries, lastAccess, now,
  \* history: when each key was last set, and when it was last set or read
  storedAt, touchedAt

storeVars == <<entries, lastAccess, now, storedAt, touchedAt>>

VARIABLES
  \* one call of extractBalancedJson: its arguments and what it returned
  exStr, exStart, exResult,
  \* history: the JSON object the text was built around
  exObject

VARIABLES
  \* one call of sendToolCallsStream: its argument, isFirstChunk before the
  \* call, and the frames it wrote
  encCalls, encFirst, encOut

encVars == <<encCalls, encFirst, encOut>>

VARIABLES
  \* one call of parseToolCalls: its argument and what it returned
  ptContent, ptOut,
  \* the reply of the non-streaming branch to an upstream body whose content
  \* is ptContent
  nsReply

parseVars == <<ptContent, ptOut, nsReply>>

VARIABLES
  \* one evaluation of shouldResetConversation and shouldRelogin: the message
  \* list and the two results
  cmdMessages, cmdOut

cmdVars == <<cmdMessages, cmdOut>>

pureVars == <<exStr, exStart, exResult, exObject, encVars, parseVars, cmdVars>>

\* what the steps of one part of the program leave alone
outsideStream == <<authVars, storeVars, pureVars>>
outsideAuth == <<streamVars, envVars, cancelVars, storeVars, pureVars>>
outsideStore == <<streamVars, envVars, cancelVars, authVars, pureVars>>
outsidePure == <<streamVars, envVars, cancelVars, authVars, storeVars>>

\* the characters of a word, for code that counts or slices characters
Chars(c) ==
  CASE c = "lookup" -> <<"l", "o", "o", "k", "u", "p">>
    [] c = "name" -> <<"n", "a", "m", "e">>
    [] c = "arguments" -> <<"a", "r", "g", "u", "m", "e", "n", "t", "s">>
    [] c = "tool_calls" -> <<"t", "o", "o", "l", "_", "c", "a", "l", "l", "s">>
    [] c = "null" -> <<"n", "u", "l", "l">>
    [] c = "Hel" -> <<"H", "e", "l">>
    [] c = "lo" -> <<"l", "o">>
    [] OTHER -> <<c>>

ExpandText(s) == Concat([i \in 1..Len(s) |-> Chars(s[i])])

\* a frame written to the client; unit names the place in the code that wrote it
Frame(unit, role, content, index, call, arguments, finish) ==
  [unit |-> unit, role |-> role, content |-> content, index |-> index,
   id |-> call.id, type |-> call.type, name |-> call.name,
   arguments |-> arguments, finish_reason |-> finish]

NoCall == [id |-> Undefined, type |-> Undefined, name |-> Undefined, arguments |-> <<>>]

\* the locals a handler reads and writes, as one value
Locals ==
  [fullContent |-> fullContent, isFirstChunk |-> isFirstChunk,
   sentContent |-> sentContent, isToolCallMode |-> isToolCallMode,
   toolCallBuffer |-> toolCallBuffer, frames |-> frames]

\* the locals as the streaming branch declares them
InitialLocals ==
  [fullContent |-> <<>>, isFirstChunk |-> TRUE, sentContent |-> <<>>,
   isToolCallMode |-> FALSE, toolCallBuffer |-> <<>>, frames |-> <<>>]

looksLikeToolCall(content) ==
  LET trimmed == Trim(content) IN
  \/ StartsWith(trimmed, <<LB, Q, "tool_calls", Q>>)
  \/ StartsWith(trimmed, <<LB, Q, "name", Q>>)
  \/ StartsWith(trimmed, <<FENCE, "json", NLC, LB, Q, "tool_calls", Q>>)
  \/ StartsWith(trimmed, <<FENCE, NLC, LB, Q, "tool_calls", Q>>)

\* a faulty sendContentChunk: each frame carries everything sent so far
sendContentChunkCumulative(st, content) ==
  IF content = <<>> THEN st
  ELSE [st EXCEPT
          !.frames = Append(@, Frame("content", st.isFirstChunk,
                                     st.sentContent \o content, 0, NoCall, <<>>, "null")),
          !.isFirstChunk = FALSE,
          !.sentContent = @ \o content]

\* sendContentChunk, called while res.writableEnded is false
sendContentChunk(st, content) ==
  IF content = <<>> THEN st
  ELSE [st EXCEPT
          !.frames = Append(@, Frame("content", st.isFirstChunk, content, 0, NoCall,
                                     <<>>, "null")),
          !.isFirstChunk = FALSE,
          !.sentContent = @ \o content]

ChunkSize == 50

\* the argument frames of call idx: slices of chunkSize characters from i (0-based)
RECURSIVE ArgFrames(_, _, _)
ArgFrames(args, idx, i) ==
  IF i >= Len(args) THEN <<>>
  ELSE <<Frame("tool_args", FALSE, <<>>, idx, NoCall,
               SubSeq(args, i + 1, IF i + ChunkSize < Len(args) THEN i + ChunkSize
                                   ELSE Len(args)),
               "null")>>
       \o ArgFrames(args, idx, i + ChunkSize)

\* sendToolCallsStream from call idx (0-based) on
RECURSIVE sendToolCallsStream(_, _, _)
sendToolCallsStream(st, toolCalls, idx) ==
  IF idx >= Len(toolCalls) THEN st
  ELSE LET tc == toolCalls[idx + 1]
           args == IF tc.arguments = <<>> THEN <<LB, RB>> ELSE ExpandText(tc.arguments)
           start == Frame("tool_start", st.isFirstChunk, <<>>, idx, tc, <<>>, "null")
       IN sendToolCallsStream(
            [st EXCEPT !.frames = Append(@, start) \o ArgFrames(args, idx, 0),
                       !.isFirstChunk = FALSE],
            toolCalls, idx + 1)

\* `${parsed.msg}` in the error frame
MsgText(v) ==
  IF v.t = "str" THEN v.s
  ELSE IF v.t = "undef" THEN <<"undefined">>
  ELSE IF v.t = "lit" THEN v.s
  ELSE IF v.t = "obj" THEN <<"[object Object]">>
  ELSE Stringify(v)

\* typeof v === 'number'
IsNumber(v) == v.t = "lit" /\ v.s \in {<<"0">>, <<"1">>}

\* optional chaining: parsed?.key
OptGet(v, key) == IF Nullish(v) THEN Undefined ELSE Get(v, key)

\* a faulty content branch: text is also sent while it is being buffered
ProcessContentEcho(st, content) ==
  IF ~st.isToolCallMode /\ Len(st.sentContent) = 0
     /\ looksLikeToolCall(st.fullContent \o content)
  THEN [st EXCEPT !.fullContent = @ \o content,
                  !.isToolCallMode = TRUE,
                  !.toolCallBuffer = st.fullContent \o content]
  ELSE IF st.isToolCallMode
  THEN sendContentChunk([st EXCEPT !.fullContent = @ \o content,
                                   !.toolCallBuffer = st.fullContent \o content],
                        content)
  ELSE sendContentChunk([st EXCEPT !.fullContent = @ \o content], content)

\* a faulty content branch: the buffer keeps the last fragment only
ProcessContentKeepLast(st, content) ==
  IF ~st.isToolCallMode /\ Len(st.sentContent) = 0
     /\ looksLikeToolCall(st.fullContent \o content)
  THEN [st EXCEPT !.fullContent = @ \o content,
                  !.isToolCallMode = TRUE,
                  !.toolCallBuffer = content]
  ELSE IF st.isToolCallMode
  THEN [st EXCEPT !.fullContent = @ \o content,
                  !.toolCallBuffer = content]
  ELSE sendContentChunk([st EXCEPT !.fullContent = @ \o content], content)

\* a faulty content branch: the mode is entered whatever has been sent
ProcessContentLateSwitch(st, content) ==
  IF ~st.isToolCallMode /\ looksLikeToolCall(st.fullContent \o content)
  THEN [st EXCEPT !.fullContent = @ \o content,
                  !.isToolCallMode = TRUE,
                  !.toolCallBuffer = st.fullContent \o content]
  ELSE IF st.isToolCallMode
  THEN [st EXCEPT !.fullContent = @ \o content,
                  !.toolCallBuffer = st.fullContent \o content]
  ELSE sendContentChunk([st EXCEPT !.fullContent = @ \o content], content)

\* the content branch: append, detect the mode, buffer or send
ProcessContent(st, content) ==
  IF ~st.isToolCallMode /\ Len(st.sentContent) = 0
     /\ looksLikeToolCall(st.fullContent \o content)
  THEN [st EXCEPT !.fullContent = @ \o content,
                  !.isToolCallMode = TRUE,
                  !.toolCallBuffer = st.fullContent \o content]
  ELSE IF st.isToolCallMode
  THEN [st EXCEPT !.fullContent = @ \o content,
                  !.toolCallBuffer = st.fullContent \o content]
  ELSE sendContentChunk([st EXCEPT !.fullContent = @ \o content], content)

\* a faulty try block: an error line is reported in text mode only
ProcessParsedQuiet(st, code, msg, theContent) ==
  IF IsNumber(code) /\ code # LitVal("0")
  THEN IF st.isToolCallMode THEN st
       ELSE [st EXCEPT !.frames =
               Append(@, Frame("error", FALSE, <<"Error: ">> \o MsgText(msg), 0, NoCall,
                               <<>>, "null"))]
  ELSE IF ~Truthy(theContent) THEN st
  ELSE ProcessContent(st, MsgText(theContent))

\* a faulty try block: the error branch lacks its continue and the content of
\* the error line is processed as well
ProcessParsedNoContinue(st, code, msg, theContent) ==
  LET st2 == IF IsNumber(code) /\ code # LitVal("0")
             THEN [st EXCEPT !.frames =
                     Append(@, Frame("error", FALSE, <<"Error: ">> \o MsgText(msg), 0,
                                     NoCall, <<>>, "null"))]
             ELSE st
  IN IF ~Truthy(theContent) THEN st2 ELSE ProcessContent(st2, MsgText(theContent))

\* the try block for a parsed line: code, msg and content are what it reads
ProcessParsed(st, code, msg, theContent) ==
  IF IsNumber(code) /\ code # LitVal("0")
  THEN [st EXCEPT !.frames =
          Append(@, Frame("error", FALSE, <<"Error: ">> \o MsgText(msg), 0, NoCall,
                          <<>>, "null"))]
  ELSE IF ~Truthy(theContent) THEN st
  ELSE ProcessContent(st, MsgText(theContent))

\* a faulty catch block: a parse failure is reported to the client
ProcessResultReportsFailure(st, res) ==
  IF ~res.ok
  THEN [st EXCEPT !.frames =
          Append(@, Frame("error", FALSE, <<"Error: ">>, 0, NoCall, <<>>, "null"))]
  ELSE ProcessParsed(st, OptGet(res.v, <<"code">>), Get(res.v, <<"msg">>),
                     OptGet(OptGet(res.v, <<"msgItem">>), <<"theContent">>))

\* a parse failure is caught and the line skipped
ProcessResult(st, res) ==
  IF ~res.ok THEN st
  ELSE ProcessParsed(st, OptGet(res.v, <<"code">>), Get(res.v, <<"msg">>),
                     OptGet(OptGet(res.v, <<"msgItem">>), <<"theContent">>))

\* the body of the data handler's loop for one line
ProcessLine(st, line) ==
  IF Trim(line) = <<>> THEN st ELSE ProcessResult(st, JSONParse(line))

RECURSIVE ProcessLines(_, _)
ProcessLines(st, lines) ==
  IF lines = <<>> THEN st ELSE ProcessLines(ProcessLine(st, Head(lines)), Tail(lines))

\* String.prototype.split('\n'): the segments between newlines, at least one
SplitNL(s) ==
  LET nl == {i \in 1..Len(s) : s[i] = NLC}
      from(n) == IF n = 1 THEN 1
                 ELSE 1 + CHOOSE i \in nl : Cardinality({j \in nl : j < i}) = n - 2
      to(n) == IF n = Cardinality(nl) + 1 THEN Len(s)
               ELSE (CHOOSE i \in nl : Cardinality({j \in nl : j < i}) = n - 1) - 1
  IN [n \in 1..(Cardinality(nl) + 1) |-> SubSeq(s, from(n), to(n))]

\* line.trim() is not empty
NotBlank(line) == Trim(line) # <<>>

\* a faulty data handler: the text after the last newline is taken for a line
DataHandlerNoCarry(chunk) ==
  IF writableEnded
  THEN /\ readerState' = "destroyed"
       /\ UNCHANGED <<buffer, fullContent, isFirstChunk, sentContent, isToolCallMode,
                      toolCallBuffer, frames, writableEnded, decoded>>
  ELSE \E lines \in {SplitNL(buffer \o chunk)} :
       \E st \in {ProcessLines(Locals, lines)} :
          /\ buffer' = <<>>
          /\ decoded' = decoded \o SelectSeq(lines, NotBlank)
          /\ fullContent' = st.fullContent
          /\ isFirstChunk' = st.isFirstChunk
          /\ sentContent' = st.sentContent
          /\ isToolCallMode' = st.isToolCallMode
          /\ toolCallBuffer' = st.toolCallBuffer
          /\ frames' = st.frames
          /\ UNCHANGED <<writableEnded, readerState>>

\* reader.on('data'): the whole handler for one chunk
DataHandler(chunk) ==
  IF writableEnded
  THEN /\ readerState' = "destroyed"
       /\ UNCHANGED <<buffer, fullContent, isFirstChunk, sentContent, isToolCallMode,
                      toolCallBuffer, frames, writableEnded, decoded>>
  ELSE \E lines \in {SplitNL(buffer \o chunk)} :
       \E st \in {ProcessLines(Locals, SubSeq(lines, 1, Len(lines) - 1))} :
          /\ buffer' = lines[Len(lines)]
          /\ decoded' = decoded \o SelectSeq(SubSeq(lines, 1, Len(lines) - 1), NotBlank)
          /\ fullContent' = st.fullContent
          /\ isFirstChunk' = st.isFirstChunk
          /\ sentContent' = st.sentContent
          /\ isToolCallMode' = st.isToolCallMode
          /\ toolCallBuffer' = st.toolCallBuffer
          /\ frames' = st.frames
          /\ UNCHANGED <<writableEnded, readerState>>

\* a faulty end handler: the mode, not the normalizer, decides the finish reason
EndFramesByMode(st, toolCalls) ==
  IF st.isToolCallMode /\ ~toolCalls.none /\ Len(toolCalls.calls) > 0
  THEN [sendToolCallsStream(st, toolCalls.calls, 0) EXCEPT !.frames =
          Append(@, Frame("finish", FALSE, <<>>, 0, NoCall, <<>>, "tool_calls"))]
  ELSE [(IF st.isToolCallMode /\ st.toolCallBuffer # <<>>
         THEN sendContentChunk(st, st.toolCallBuffer) ELSE st) EXCEPT !.frames =
          Append(@, Frame("finish", FALSE, <<>>, 0, NoCall, <<>>, "stop"))]

\* the two branches of the end handler, before the final sentinel
EndFrames(st, toolCalls) ==
  IF ~toolCalls.none /\ Len(toolCalls.calls) > 0
  THEN [sendToolCallsStream(st, toolCalls.calls, 0) EXCEPT !.frames =
          Append(@, Frame("finish", FALSE, <<>>, 0, NoCall, <<>>, "tool_calls"))]
  ELSE [(IF st.isToolCallMode /\ st.toolCallBuffer # <<>>
         THEN sendContentChunk(st, st.toolCallBuffer) ELSE st) EXCEPT !.frames =
          Append(@, Frame("finish", FALSE, <<>>, 0, NoCall, <<>>, "stop"))]

\* a faulty end handler: it does not look at res.writableEnded
EndHandlerUnguarded ==
  /\ readerState' = "ended"
  /\ UNCHANGED <<buffer, fullContent, isToolCallMode, toolCallBuffer, decoded>>
  /\ \E st \in {EndFrames(Locals, parseToolCalls(fullContent))} :
       /\ frames' = Append(st.frames,
                           Frame("done", FALSE, <<>>, 0, NoCall, <<>>, "null"))
       /\ isFirstChunk' = st.isFirstChunk
       /\ sentContent' = st.sentContent
       /\ writableEnded' = TRUE

\* reader.on('end')
EndHandler ==
  /\ readerState' = "ended"
  /\ UNCHANGED <<buffer, fullContent, isToolCallMode, toolCallBuffer, decoded>>
  /\ IF writableEnded THEN UNCHANGED <<frames, isFirstChunk, sentContent, writableEnded>>
     ELSE \E st \in {EndFrames(Locals, parseToolCalls(fullContent))} :
             /\ frames' = Append(st.frames,
                                 Frame("done", FALSE, <<>>, 0, NoCall, <<>>, "null"))
             /\ isFirstChunk' = st.isFirstChunk
             /\ sentContent' = st.sentContent
             /\ writableEnded' = TRUE

\* a faulty error handler: every error of the body stream is logged as an error
ErrorHandlerLogsAll(errName) ==
  /\ errorLogged' = TRUE
  /\ readerState' = "errored"
  /\ writableEnded' = TRUE
  /\ UNCHANGED <<buffer, fullContent, isFirstChunk, sentContent, isToolCallMode,
                 toolCallBuffer, frames, decoded>>

\* reader.on('error'), for an error of name errName
ErrorHandler(errName) ==
  /\ errorLogged' = (errorLogged \/ errName # "AbortError")
  /\ readerState' = "errored"
  /\ writableEnded' = TRUE
  /\ UNCHANGED <<buffer, fullContent, isFirstChunk, sentContent, isToolCallMode,
                 toolCallBuffer, frames, decoded>>


\* ------------------------------------------------------------- the upstream
\* a JSON string literal holding text
EncodeStr(text) == <<Q>> \o EscapeStr(text) \o <<Q>>

\* {"msgItem":{"theContent":"<text>"}}
ContentLine(text) ==
  <<LB, Q, "msgItem", Q, COLON, LB, Q, "theContent", Q, COLON>> \o EncodeStr(text)
  \o <<RB, RB>>

\* {"code":0,"msgItem":{"theContent":"<text>"}}
OkCodeLine(text) ==
  <<LB, Q, "code", Q, COLON, "0", COMMA, Q, "msgItem", Q, COLON, LB, Q, "theContent", Q,
    COLON>> \o EncodeStr(text) \o <<RB, RB>>

\* {"code":1,"msg":"<msg>","msgItem":{"theContent":"<text>"}}
ErrorLine(msg, text) ==
  <<LB, Q, "code", Q, COLON, "1", COMMA, Q, "msg", Q, COLON>> \o EncodeStr(msg)
  \o <<COMMA, Q, "msgItem", Q, COLON, LB, Q, "theContent", Q, COLON>> \o EncodeStr(text)
  \o <<RB, RB>>

\* the text of the tool-call scenario
LookupText ==
  <<LB, Q, "tool_calls", Q, COLON, LK, LB, Q, "name", Q, COLON, Q, "lookup", Q, COMMA,
    Q, "arguments", Q, COLON, LB, Q, "q", Q, COLON, Q, "x", Q, RB, RB, RK, RB>>

\* the text fragments the upstream sends as content in SpecStream
Fragments ==
  { <<"lo">>,
    SubSeq(LookupText, 1, 1),
    SubSeq(LookupText, 2, 4),
    SubSeq(LookupText, 1, 4),
    SubSeq(LookupText, 5, Len(LookupText)) }

\* the lines the upstream sends in SpecStream
Menu ==
  {ContentLine(f) : f \in Fragments}
  \cup { OkCodeLine(<<"Hel">>),
         ErrorLine(<<"model offline">>, <<"lo">>),
         <<LB, Q, "msgItem", Q, COLON>>,
         <<SP>> }

\* where a line may be cut between two chunks
SplitPoints(line) == {Len(line) \div 2} \cap 1..(Len(line) - 1)

StreamInit ==
  /\ buffer = <<>>
  /\ fullContent = <<>>
  /\ isFirstChunk = TRUE
  /\ sentContent = <<>>
  /\ isToolCallMode = FALSE
  /\ toolCallBuffer = <<>>
  /\ frames = <<>>
  /\ writableEnded = FALSE
  /\ readerState = "open"
  /\ decoded = <<>>
  /\ pending = <<>>
  /\ produced = 0
  /\ upstreamClosed = FALSE
  /\ received = <<>>
  /\ clientClosed = FALSE
  /\ frags = 0
  /\ aborted = FALSE
  /\ errorLogged = FALSE

\* the upstream delivers one chunk: what was pending and, cut anywhere in
\* SplitPoints, the start of the next line
OnData ==
  /\ readerState = "open"
  /\ todo = <<>>
  /\ \E more \in {<<>>}
                 \cup (IF produced < MaxLines /\ ~upstreamClosed
                       THEN {l \o <<NLC>> : l \in Menu} \cup {ContentLine(<<"lo">>)}
                       ELSE {}) :
       \E k \in SplitPoints(more) \cup {Len(more)} :
         LET chunk == pending \o SubSeq(more, 1, k) IN
         /\ chunk # <<>>
         /\ DataHandler(chunk)
         /\ received' = received \o chunk
         /\ pending' = SubSeq(more, k + 1, Len(more))
         /\ produced' = IF more = <<>> THEN produced ELSE produced + 1
         /\ upstreamClosed' = (upstreamClosed \/ (more # <<>> /\ more[Len(more)] # NLC))
  /\ UNCHANGED <<clientClosed, todo, frags, aborted, errorLogged>>
  /\ UNCHANGED outsideStream

\* the upstream ends the body once it has sent all it started
OnEnd ==
  /\ readerState = "open"
  /\ pending = <<>>
  /\ todo = <<>>
  /\ EndHandler
  /\ UNCHANGED <<envVars, cancelVars>>
  /\ UNCHANGED outsideStream

\* the body stream fails with a network error
OnError ==
  /\ readerState = "open"
  /\ ErrorHandler("FetchError")
  /\ UNCHANGED <<envVars, aborted>>
  /\ UNCHANGED outsideStream

\* req.on('close'): the client goes away, controller.abort() makes the body
\* stream fail with an AbortError and the error handler runs
ClientClose ==
  /\ readerState = "open"
  /\ ~clientClosed
  /\ clientClosed' = TRUE
  /\ aborted' = TRUE
  /\ ErrorHandler("AbortError")
  /\ UNCHANGED <<pending, produced, upstreamClosed, received, todo, frags>>
  /\ UNCHANGED outsideStream

\* the callbacks of the body stream fired in any order, also after the response
\* has been ended: a data event with one more line, as long as the stream has
\* not been destroyed,
CallbackData ==
  /\ todo = <<>>
  /\ produced < MaxLines
  /\ readerState # "destroyed"
  /\ \E line \in Menu :
       LET chunk == line \o <<NLC>> IN
       /\ DataHandler(chunk)
       /\ received' = received \o chunk
  /\ produced' = produced + 1
  /\ UNCHANGED <<pending, upstreamClosed, clientClosed, todo, frags, aborted, errorLogged>>
  /\ UNCHANGED outsideStream

\* an end event,
CallbackEnd ==
  /\ todo = <<>>
  /\ EndHandler
  /\ UNCHANGED <<envVars, cancelVars>>
  /\ UNCHANGED outsideStream

\* an error event
CallbackError ==
  /\ todo = <<>>
  /\ \E errName \in {"AbortError", "FetchError"} : ErrorHandler(errName)
  /\ UNCHANGED <<envVars, aborted>>
  /\ UNCHANGED outsideStream

\* the next fragment of the scenario text arrives as one content line
OnDataLookup ==
  /\ readerState = "open"
  /\ todo # <<>>
  /\ \E n \in 1..Len(todo) :
       /\ frags + 1 < MaxFrags \/ n = Len(todo)
       /\ LET chunk == ContentLine(SubSeq(todo, 1, n)) \o <<NLC>> IN
          /\ DataHandler(chunk)
          /\ received' = received \o chunk
       /\ todo' = SubSeq(todo, n + 1, Len(todo))
       /\ frags' = frags + 1
  /\ UNCHANGED <<pending, produced, upstreamClosed, clientClosed, aborted, errorLogged>>
  /\ UNCHANGED outsideStream

\* ------------------------------------------- authentication and the handler
\* the shared-default credential (src/server.js:293)
SENTINEL == "sk-qqlcx5"
\* a caller's own upstream credential
OwnKey == "sk-own"
\* no Authorization header
NoCred == "<no credential>"
\* Map.prototype.get of an absent key
NoToken == "<no token>"
NoConv == "<no conversation>"
NoReply == "<no reply>"
Failure == "<failure>"

\* what the login endpoint may return as loginToken
Tokens == {SENTINEL, "token-a", "token-b"}
\* what the conversation endpoint may return as list[0].id
ConvIds == {"conv-1", "conv-2"}
UserKeys == Tokens \cup {OwnKey}
Creds == {SENTINEL, OwnKey, NoCred}
\* the body: the last message is no command, a reset word or a relogin word, or
\* the body has no message list at all
Cmds == {"chat", "reset", "relogin", "nomessages"}
\* what the error middleware answers for an Error without a statusCode
ServerError == "500"

MaxRequests == 2
Requests == 1..MaxRequests

NewRequest ==
  [pc |-> "new", cred |-> NoCred, cmd |-> "chat", mossToken |-> NoToken,
   userKey |-> NoToken, conv |-> NoConv, reply |-> NoReply, echoed |-> NoToken,
   logins |-> 0, convs |-> 0, gens |-> 0]

\* faulty variant: a reset word does not force a new conversation
HandlerResetReuses(rec, store, convs) ==
  LET r == [rec EXCEPT !.userKey = rec.mossToken] IN
  IF r.cmd = "nomessages"
  THEN [req |-> [r EXCEPT !.pc = "done", !.reply = ServerError], store |-> store]
  ELSE IF r.cmd = "relogin" /\ r.mossToken # SENTINEL
  THEN [req |-> [r EXCEPT !.pc = "done", !.reply = "refused",
                          !.echoed = r.mossToken], store |-> store]
  ELSE IF r.cmd = "relogin"
  THEN [req |-> [r EXCEPT !.pc = "relogin", !.logins = @ + 1], store |-> NoToken]
  ELSE IF convs[r.userKey] = NoConv
  THEN [req |-> [r EXCEPT !.pc = "conv", !.convs = @ + 1], store |-> store]
  ELSE [req |-> [r EXCEPT !.pc = "gen", !.conv = convs[r.userKey], !.gens = @ + 1],
        store |-> store]

\* faulty variant: the relogin branch is open to every credential
HandlerReloginAny(rec, store, convs) ==
  LET r == [rec EXCEPT !.userKey = rec.mossToken] IN
  IF r.cmd = "nomessages"
  THEN [req |-> [r EXCEPT !.pc = "done", !.reply = ServerError], store |-> store]
  ELSE IF r.cmd = "relogin"
  THEN [req |-> [r EXCEPT !.pc = "relogin", !.logins = @ + 1], store |-> NoToken]
  ELSE IF convs[r.userKey] = NoConv \/ r.cmd = "reset"
  THEN [req |-> [r EXCEPT !.pc = "conv", !.convs = @ + 1], store |-> store]
  ELSE [req |-> [r EXCEPT !.pc = "gen", !.conv = convs[r.userKey], !.gens = @ + 1],
        store |-> store]

\* the route handler from its entry to its first await or its reply; store and
\* convs are the two stores as the handler finds them
Handler(rec, store, convs) ==
  LET r == [rec EXCEPT !.userKey = rec.mossToken] IN
  IF r.cmd = "nomessages"
  THEN [req |-> [r EXCEPT !.pc = "done", !.reply = ServerError], store |-> store]
  ELSE IF r.cmd = "relogin" /\ r.mossToken # SENTINEL
  THEN [req |-> [r EXCEPT !.pc = "done", !.reply = "refused",
                          !.echoed = r.mossToken], store |-> store]
  ELSE IF r.cmd = "relogin"
  THEN [req |-> [r EXCEPT !.pc = "relogin", !.logins = @ + 1], store |-> NoToken]
  ELSE IF convs[r.userKey] = NoConv \/ r.cmd = "reset"
  THEN [req |-> [r EXCEPT !.pc = "conv", !.convs = @ + 1], store |-> store]
  ELSE [req |-> [r EXCEPT !.pc = "gen", !.conv = convs[r.userKey], !.gens = @ + 1],
        store |-> store]

\* faulty variant: a request without a credential is served as the shared default
authenticateTokenDefaultsNoCred(r) ==
  /\ req[r].pc = "new"
  /\ \E cred \in Creds, cmd \in Cmds :
       LET rec == [req[r] EXCEPT !.cred = cred, !.cmd = cmd] IN
       IF cred \in {SENTINEL, NoCred} /\ userTokenStore = NoToken
       THEN /\ req' = [req EXCEPT ![r] = [rec EXCEPT !.pc = "login", !.logins = @ + 1]]
            /\ UNCHANGED userTokenStore
       ELSE \E out \in {Handler([rec EXCEPT !.mossToken =
                                    IF cred = OwnKey THEN cred ELSE userTokenStore],
                                userTokenStore, conversationStore)} :
              /\ req' = [req EXCEPT ![r] = out.req]
              /\ userTokenStore' = out.store
  /\ UNCHANGED conversationStore
  /\ UNCHANGED outsideAuth

\* faulty variant: the shared default logs in whether or not a token is stored
authenticateTokenAlwaysLogin(r) ==
  /\ req[r].pc = "new"
  /\ \E cred \in Creds, cmd \in Cmds :
       LET rec == [req[r] EXCEPT !.cred = cred, !.cmd = cmd] IN
       IF cred = NoCred
       THEN /\ req' = [req EXCEPT ![r] = [rec EXCEPT !.pc = "done",
                                                    !.reply = "401 missing_api_key"]]
            /\ UNCHANGED userTokenStore
       ELSE IF cred = SENTINEL
       THEN /\ req' = [req EXCEPT ![r] = [rec EXCEPT !.pc = "login", !.logins = @ + 1]]
            /\ UNCHANGED userTokenStore
       ELSE \E out \in {Handler([rec EXCEPT !.mossToken = cred],
                                userTokenStore, conversationStore)} :
              /\ req' = [req EXCEPT ![r] = out.req]
              /\ userTokenStore' = out.store
  /\ UNCHANGED conversationStore
  /\ UNCHANGED outsideAuth

\* a request arrives: authenticateToken runs and, when it needs no login, calls
\* next() and the handler runs in the same turn
authenticateToken(r) ==
  /\ req[r].pc = "new"
  /\ \E cred \in Creds, cmd \in Cmds :
       LET rec == [req[r] EXCEPT !.cred = cred, !.cmd = cmd] IN
       IF cred = NoCred
       THEN /\ req' = [req EXCEPT ![r] = [rec EXCEPT !.pc = "done",
                                                    !.reply = "401 missing_api_key"]]
            /\ UNCHANGED userTokenStore
       ELSE IF cred = SENTINEL /\ userTokenStore = NoToken
       THEN /\ req' = [req EXCEPT ![r] = [rec EXCEPT !.pc = "login", !.logins = @ + 1]]
            /\ UNCHANGED userTokenStore
       ELSE \E out \in {Handler([rec EXCEPT !.mossToken =
                                    IF cred = SENTINEL THEN userTokenStore ELSE cred],
                                userTokenStore, conversationStore)} :
              /\ req' = [req EXCEPT ![r] = out.req]
              /\ userTokenStore' = out.store
  /\ UNCHANGED conversationStore
  /\ UNCHANGED outsideAuth

\* the login awaited by authenticateToken returns: the token is stored and the
\* handler runs, or the login failed and the request is answered 401
LoginReturn(r) ==
  /\ req[r].pc = "login"
  /\ \E t \in Tokens \cup {Failure} :
       IF t = Failure
       THEN /\ req' = [req EXCEPT ![r].pc = "done", ![r].reply = "401 invalid_api_key"]
            /\ UNCHANGED userTokenStore
       ELSE \E out \in {Handler([req[r] EXCEPT !.mossToken = t], t, conversationStore)} :
              /\ req' = [req EXCEPT ![r] = out.req]
              /\ userTokenStore' = out.store
  /\ UNCHANGED conversationStore
  /\ UNCHANGED outsideAuth

\* the login awaited by the relogin branch returns
ReloginReturn(r) ==
  /\ req[r].pc = "relogin"
  /\ \E t \in Tokens \cup {Failure} :
       IF t = Failure
       THEN /\ req' = [req EXCEPT ![r].pc = "done", ![r].reply = "500"]
            /\ UNCHANGED userTokenStore
       ELSE /\ req' = [req EXCEPT ![r].pc = "done", ![r].mossToken = t,
                                   ![r].reply = "relogged"]
            /\ userTokenStore' = t
  /\ UNCHANGED conversationStore
  /\ UNCHANGED outsideAuth

\* faulty variant: the new id is used but not stored
ConversationReturnNoStore(r) ==
  /\ req[r].pc = "conv"
  /\ \E c \in ConvIds \cup {Failure} :
       IF c = Failure
       THEN req' = [req EXCEPT ![r].pc = "done", ![r].reply = "500"]
       ELSE req' = [req EXCEPT ![r] =
                      IF req[r].cmd = "reset"
                      THEN [@ EXCEPT !.pc = "done", !.conv = c, !.reply = "reset"]
                      ELSE [@ EXCEPT !.pc = "gen", !.conv = c, !.gens = @ + 1]]
  /\ UNCHANGED <<userTokenStore, conversationStore>>
  /\ UNCHANGED outsideAuth

\* createNewConversation returns: the id is stored under the user key; a reset
\* is answered, anything else goes on to the generation call
ConversationReturn(r) ==
  /\ req[r].pc = "conv"
  /\ \E c \in ConvIds \cup {Failure} :
       IF c = Failure
       THEN /\ req' = [req EXCEPT ![r].pc = "done", ![r].reply = "500"]
            /\ UNCHANGED conversationStore
       ELSE /\ conversationStore' = [conversationStore EXCEPT ![req[r].userKey] = c]
            /\ req' = [req EXCEPT ![r] =
                         IF req[r].cmd = "reset"
                         THEN [@ EXCEPT !.pc = "done", !.conv = c, !.reply = "reset"]
                         ELSE [@ EXCEPT !.pc = "gen", !.conv = c, !.gens = @ + 1]]
  /\ UNCHANGED userTokenStore
  /\ UNCHANGED outsideAuth

\* the generation call returns: a completion, or a status that is not ok
GenerationReturn(r) ==
  /\ req[r].pc = "gen"
  /\ \E ok \in BOOLEAN :
       req' = [req EXCEPT ![r].pc = "done",
                          ![r].reply = IF ok THEN "completion" ELSE "500"]
  /\ UNCHANGED <<userTokenStore, conversationStore>>
  /\ UNCHANGED outsideAuth

\* ------------------------------------------------------------- CleanupMap
\* the keys and values one store is used with
StoreKeys == {"default_user", "sk-own"}
StoreValues == {"value-1", "value-2"}
\* Map.prototype.has is false
Absent == "<absent>"
\* the key has no lastAccess entry
NoTime == -1

\* maxAgeMs, counted in clock ticks: two hours for conversationStore and
\* twenty-four for userTokenStore in the source, scaled to the model's clock
MaxAge == 2
\* the clock stops here
MaxTime == 4

\* set(key, value)
set(key, value) ==
  /\ lastAccess' = [lastAccess EXCEPT ![key] = now]
  /\ entries' = [entries EXCEPT ![key] = value]
  /\ storedAt' = [storedAt EXCEPT ![key] = now]
  /\ touchedAt' = [touchedAt EXCEPT ![key] = now]
  /\ UNCHANGED now
  /\ UNCHANGED outsideStore

\* faulty variant: a read does not refresh the access time
getWithoutRefresh(key) ==
  /\ IF entries[key] # Absent
     THEN touchedAt' = [touchedAt EXCEPT ![key] = now]
     ELSE UNCHANGED touchedAt
  /\ UNCHANGED <<entries, lastAccess, now, storedAt>>
  /\ UNCHANGED outsideStore

\* get(key): a key that is present has its access time refreshed
get(key) ==
  /\ IF entries[key] # Absent
     THEN /\ lastAccess' = [lastAccess EXCEPT ![key] = now]
          /\ touchedAt' = [touchedAt EXCEPT ![key] = now]
     ELSE UNCHANGED <<lastAccess, touchedAt>>
  /\ UNCHANGED <<entries, now, storedAt>>
  /\ UNCHANGED outsideStore

\* delete(key), inherited from Map: lastAccess is not touched
delete(key) ==
  /\ entries' = [entries EXCEPT ![key] = Absent]
  /\ UNCHANGED <<lastAccess, now, storedAt, touchedAt>>
  /\ UNCHANGED outsideStore

\* the keys cleanup removes when it runs at time t
Expired(t) == {k \in StoreKeys : lastAccess[k] # NoTime /\ t - lastAccess[k] > MaxAge}

\* cleanup(), run by the interval timer
cleanup ==
  /\ entries' = [k \in StoreKeys |-> IF k \in Expired(now) THEN Absent ELSE entries[k]]
  /\ lastAccess' = [k \in StoreKeys |-> IF k \in Expired(now) THEN NoTime
                                        ELSE lastAccess[k]]
  /\ UNCHANGED <<now, storedAt, touchedAt>>
  /\ UNCHANGED outsideStore

\* time passes
Tick ==
  /\ now < MaxTime
  /\ now' = now + 1
  /\ UNCHANGED <<entries, lastAccess, storedAt, touchedAt>>
  /\ UNCHANGED outsideStore

StoreInit ==
  /\ entries = [k \in StoreKeys |-> Absent]
  /\ lastAccess = [k \in StoreKeys |-> NoTime]
  /\ now = 0
  /\ storedAt = [k \in StoreKeys |-> NoTime]
  /\ touchedAt = [k \in StoreKeys |-> NoTime]

\* ------------------------------------------- a call of extractBalancedJson
\* JSON objects: plain, with braces in a string, with an escaped quote, with an
\* escaped backslash before the closing quote, nested
JsonObjects ==
  { <<LB, Q, "q", Q, COLON, Q, "x", Q, RB>>,
    <<LB, Q, "q", Q, COLON, Q, RB, LB, Q, RB>>,
    <<LB, Q, "q", Q, COLON, Q, BS, Q, Q, RB>>,
    <<LB, Q, "q", Q, COLON, Q, BS, BS, Q, RB>>,
    <<LB, Q, "q", Q, COLON, LB, Q, "x", Q, COLON, "1", RB, RB>> }
\* text before the object, without an opening brace
Prefixes == { <<>>, <<"lo", SP>>, <<RB>>, <<Q>>, <<BS>>, <<"lo", Q, SP>> }
\* text after the object
Suffixes == { <<>>, <<SP, "lo">>, <<RB>>, <<LB>>, <<Q>> }

NotCalled == [called |-> FALSE, found |-> FALSE, s |-> <<>>]

\* the longest text and the largest start index of a call on a cut text
MaxText == 16
MaxStart == 3

\* a call that has not returned
NotEncoded == [called |-> FALSE, frames |-> <<>>]
NotParsed == [called |-> FALSE, none |-> TRUE, calls |-> <<>>, raised |-> FALSE]

NotDetected == [called |-> FALSE, reset |-> FALSE, relogin |-> FALSE]
CmdIdle == cmdMessages = <<>> /\ cmdOut = NotDetected

\* no call of sendToolCallsStream or parseToolCalls is being looked at
EncIdle == encCalls = <<>> /\ encFirst = TRUE /\ encOut = NotEncoded
\* res.json has not been called
NotReplied ==
  [called |-> FALSE, finish_reason |-> "", contentNull |-> FALSE, content |-> <<>>,
   hasToolCalls |-> FALSE, tool_calls |-> <<>>]
ParseIdle == ptContent = <<>> /\ ptOut = NotParsed /\ nsReply = NotReplied

\* no call is being looked at
PureIdle ==
  /\ exStr = <<>>
  /\ exStart = 1
  /\ exObject = <<>>
  /\ exResult = NotCalled
  /\ EncIdle
  /\ ParseIdle
  /\ CmdIdle

\* a call with a start index at or before the object
PureInit ==
  /\ \E pre \in Prefixes, obj \in JsonObjects, suf \in Suffixes :
       /\ exStr = pre \o obj \o suf
       /\ exObject = obj
       /\ exStart \in 1..(Len(pre) + 1)
  /\ exResult = NotCalled
  /\ EncIdle
  /\ ParseIdle
  /\ CmdIdle

\* every text cut off anywhere, with a start index inside the text before the
\* object, and a text whose first brace is never closed
CutTexts ==
  UNION {{SubSeq(pre \o obj \o suf, 1, n) : n \in 1..Min({MaxText, Len(pre \o obj \o suf)})} :
           pre \in Prefixes, obj \in JsonObjects, suf \in Suffixes}
  \cup {<<RB, LB, LB, RB>>}

\* a call on any of these texts
PureInitAny ==
  /\ exStr \in CutTexts
  /\ exStart \in 1..MaxStart
  /\ exStart <= Len(exStr)
  /\ exObject = <<>>
  /\ exResult = NotCalled
  /\ EncIdle
  /\ ParseIdle
  /\ CmdIdle

\* the call returns
Extract ==
  /\ ~exResult.called
  /\ \E r \in {extractBalancedJson(exStr, exStart)} :
       exResult' = [called |-> TRUE, found |-> r.found, s |-> r.s]
  /\ UNCHANGED <<exStr, exStart, exObject, encVars, parseVars, cmdVars>>
  /\ UNCHANGED outsidePure

\* ------------------------------------------- a call of sendToolCallsStream
\* a JSON text of n characters: {"q":"xx...x"}
ArgsOfLen(n) ==
  <<LB, Q, "q", Q, COLON, Q>> \o [i \in 1..(n - 8) |-> "x"] \o <<Q, RB>>

\* the arguments strings of the calls: empty, short, one slice exactly, one
\* character more, two slices exactly, two and a part
EncArguments == {<<>>} \cup {ArgsOfLen(n) : n \in {9, ChunkSize, ChunkSize + 1,
                                                    2 * ChunkSize, 2 * ChunkSize + 20}}

\* the descriptors parseToolCalls can hand over
EncDescriptors ==
  {[id |-> id, type |-> StrVal(<<"function">>), name |-> StrVal(<<"lookup">>),
    arguments |-> a] : id \in {GeneratedId, StrVal(<<"call_1">>)}, a \in EncArguments}

MaxCalls == 2

\* a call with one to MaxCalls descriptors, before or after a first frame
EncInit ==
  /\ encCalls \in UNION {[1..n -> EncDescriptors] : n \in 1..MaxCalls}
  /\ encFirst \in BOOLEAN
  /\ encOut = NotEncoded

\* the call returns
Encode ==
  /\ ~encOut.called
  /\ \E st \in {sendToolCallsStream([InitialLocals EXCEPT !.isFirstChunk = encFirst],
                                     encCalls, 0)} :
       encOut' = [called |-> TRUE, frames |-> st.frames]
  /\ UNCHANGED <<encCalls, encFirst>>
  /\ UNCHANGED <<exStr, exStart, exResult, exObject, parseVars, cmdVars>>
  /\ UNCHANGED outsidePure

\* ------------------------------------------------ a call of parseToolCalls
\* "name":"lookup" and "arguments":<a>
NameMember == <<Q, "name", Q, COLON, Q, "lookup", Q>>
ArgumentsMember(a) == <<Q, "arguments", Q, COLON>> \o a
\* {"q":"x"}
ArgumentsObject == <<LB, Q, "q", Q, COLON, Q, "x", Q, RB>>

\* the arguments as the upstream may write them: a nested object, that object
\* as a string, a string that is no JSON, the empty string
ArgumentForms ==
  {ArgumentsObject, EncodeStr(ArgumentsObject), EncodeStr(<<"lo">>), EncodeStr(<<>>)}

\* {"name":"lookup","arguments":<a>}
FlatEntry(a) == <<LB>> \o NameMember \o <<COMMA>> \o ArgumentsMember(a) \o <<RB>>
\* {"function":{"name":"lookup","arguments":<a>}}
FunctionEntry(a) == <<LB, Q, "function", Q, COLON>> \o FlatEntry(a) \o <<RB>>
\* {"id":"call_1","type":"function","function":{...}}
FullEntry(a) ==
  <<LB, Q, "id", Q, COLON, Q, "call_1", Q, COMMA, Q, "type", Q, COLON, Q, "function", Q,
    COMMA, Q, "function", Q, COLON>> \o FlatEntry(a) \o <<RB>>

\* the call objects the upstream may write
Entries ==
  {FlatEntry(a) : a \in ArgumentForms} \cup {FunctionEntry(a) : a \in ArgumentForms}
  \cup {FullEntry(ArgumentsObject), <<LB>> \o NameMember \o <<RB>>}

\* {"tool_calls":[<e>]}
ToolCallsObject(e) == <<LB, Q, "tool_calls", Q, COLON, LK>> \o e \o <<RK, RB>>
\* {"q":{},"tool_calls":[<e>]}: the brace nearest before the marker is not the
\* one that encloses it
SiblingObject(e) ==
  <<LB, Q, "q", Q, COLON, LB, RB, COMMA, Q, "tool_calls", Q, COLON, LK>> \o e \o <<RK, RB>>
\* a fenced block with and without the json tag
Fenced(body) == <<FENCE, "json", NLC>> \o body \o <<NLC, FENCE>>
FencedPlain(body) == <<FENCE, NLC>> \o body \o <<FENCE>>

\* candidates that are no JSON, that parse to something that is no object, or
\* whose list entries are no call objects
BrokenTexts ==
  {ToolCallsObject(<<"lo">>), ToolCallsObject(<<"null">>), ToolCallsObject(<<"1">>),
   ToolCallsObject(EncodeStr(<<"lo">>)),
   ToolCallsObject(<<"null", COMMA>> \o FlatEntry(ArgumentsObject)),
   Fenced(<<"lo">>), Fenced(<<"null">>), Fenced(<<"1">>), Fenced(<<LK, RK>>),
   Fenced(ToolCallsObject(<<"null">>)),
   <<Q, "tool_calls", Q>>,
   <<LB, Q, "tool_calls", Q, RB>>,
   FlatEntry(<<"lo">>),
   Fenced(<<"null">>) \o <<SP>> \o FlatEntry(<<"lo">>),
   ToolCallsObject(<<"lo">>) \o <<SP>> \o Fenced(ToolCallsObject(FlatEntry(ArgumentsObject)))}

\* the texts parseToolCalls is called with
ParseTexts ==
  UNION {{ToolCallsObject(e),
          <<"lo", SP>> \o ToolCallsObject(e) \o <<SP, "lo">>,
          Fenced(ToolCallsObject(e)),
          <<"lo", NLC>> \o FencedPlain(ToolCallsObject(e)),
          e,
          <<"lo", SP>> \o e,
          SiblingObject(e),
          Fenced(SiblingObject(e)),
          ToolCallsObject(e) \o <<SP>> \o Fenced(ToolCallsObject(FullEntry(ArgumentsObject))),
          e \o <<SP>> \o ToolCallsObject(FullEntry(ArgumentsObject)),
          Fenced(<<LB, Q, "tool_calls", Q, COLON, LK, RK, RB>>) \o <<SP>> \o e,
          SubSeq(ToolCallsObject(e), 1, Len(e))} : e \in Entries}
  \cup {<<>>, <<"lo">>, <<LB, Q, "tool_calls", Q, COLON, "null", RB>>}
  \cup BrokenTexts

ParseInit ==
  /\ ptContent \in ParseTexts
  /\ ptOut = NotParsed
  /\ nsReply = NotReplied

\* the call returns
Parse ==
  /\ ~ptOut.called
  /\ \E r \in {parseToolCalls(ptContent)} :
       ptOut' = [called |-> TRUE, none |-> r.none, calls |-> r.calls,
                 raised |-> r.raised]
  /\ UNCHANGED <<ptContent, nsReply>>
  /\ UNCHANGED <<exStr, exStart, exResult, exObject, encVars, cmdVars>>
  /\ UNCHANGED outsidePure

\* ------------------------------------------------ the non-streaming reply
\* the message and finish_reason of the reply built from the upstream content
NonStreamReply(content) ==
  LET toolCalls == parseToolCalls(content)
      detected == ~toolCalls.none /\ Len(toolCalls.calls) > 0
  IN [called |-> TRUE,
      finish_reason |-> IF ~toolCalls.none THEN "tool_calls" ELSE "stop",
      contentNull |-> detected,
      content |-> IF detected THEN <<>> ELSE content,
      hasToolCalls |-> detected,
      tool_calls |-> IF detected THEN toolCalls.calls ELSE <<>>]

\* the non-streaming branch answers with res.json
Reply ==
  /\ ~nsReply.called
  /\ \E r \in {NonStreamReply(ptContent)} : nsReply' = r
  /\ UNCHANGED <<ptContent, ptOut>>
  /\ UNCHANGED <<exStr, exStart, exResult, exObject, encVars, cmdVars>>
  /\ UNCHANGED outsidePure

\* ------------------- shouldResetConversation and shouldRelogin on a body
\* the words of the two vocabularies; "zh:chongzhi", "zh:chongxin denglu" and
\* "zh:denglu" stand for the three Chinese words of the source
ResetWords == {"zh:chongzhi", "reset", "1"}
ReloginWords == {"zh:chongxin denglu", "login", "zh:denglu"}

\* String.prototype.toLowerCase on the words of the model
LowerWord(w) == IF w = "LOGIN" THEN "login" ELSE IF w = "RESET" THEN "reset" ELSE w
ToLowerCase(s) == [i \in 1..Len(s) |-> LowerWord(s[i])]

\* message content: a string, or an array of parts
TextContent(s) == [t |-> "str", s |-> s, parts |-> <<>>]
PartsContent(parts) == [t |-> "arr", s |-> <<>>, parts |-> parts]

\* formatMessageContent: the string itself, or the text parts joined by newlines
JoinTexts(parts) ==
  LET texts == SelectSeq(parts, LAMBDA item : item.type = "text") IN
  Concat([i \in 1..Len(texts) |->
            IF i = 1 THEN texts[i].text ELSE <<NLC>> \o texts[i].text])
formatMessageContent(content) ==
  IF content.t = "str" THEN content.s
  ELSE IF content.t = "arr" THEN JoinTexts(content.parts)
  ELSE <<>>

\* msgs?.[msgs.length - 1], then the trimmed text against the vocabulary
shouldResetConversation(msgs) ==
  IF Len(msgs) = 0 THEN FALSE
  ELSE \E w \in ResetWords :
         Trim(formatMessageContent(msgs[Len(msgs)].content)) = <<w>>
shouldRelogin(msgs) ==
  IF Len(msgs) = 0 THEN FALSE
  ELSE \E w \in ReloginWords :
         ToLowerCase(Trim(formatMessageContent(msgs[Len(msgs)].content))) = <<w>>

Roles == {"user", "assistant", "tool"}
Contents ==
  {TextContent(<<"lo">>), TextContent(<<SP, "reset", NLC>>), TextContent(<<"RESET">>),
   TextContent(<<"LOGIN", SP>>), TextContent(<<"zh:denglu">>),
   TextContent(<<"reset", SP, "lo">>),
   PartsContent(<<[type |-> "image_url", text |-> <<"lo">>],
                  [type |-> "text", text |-> <<"1">>]>>)}
MaxMessages == 2
MessageLists ==
  UNION {[1..n -> [role : Roles, content : Contents]] : n \in 0..MaxMessages}

CmdInit ==
  /\ cmdMessages \in MessageLists
  /\ cmdOut = NotDetected

\* the handler evaluates the two predicates
Detect ==
  /\ ~cmdOut.called
  /\ cmdOut' = [called |-> TRUE, reset |-> shouldResetConversation(cmdMessages),
                relogin |-> shouldRelogin(cmdMessages)]
  /\ UNCHANGED cmdMessages
  /\ UNCHANGED <<exStr, exStart, exResult, exObject, encVars, parseVars>>
  /\ UNCHANGED outsidePure

AuthInit ==
  /\ userTokenStore = NoToken
  /\ conversationStore = [k \in UserKeys |-> NoConv]
  /\ req = [r \in Requests |-> NewRequest]

vars == <<streamVars, envVars, cancelVars, authVars, storeVars, pureVars>>

\* the state after construction: empty stores, no request yet, a fresh response
Init == StreamInit /\ AuthInit /\ todo = <<>> /\ StoreInit /\ PureIdle

StreamNext == OnData \/ OnEnd \/ OnError \/ ClientClose
SpecStream == Init /\ [][StreamNext]_vars

CallbackNext == CallbackData \/ CallbackEnd \/ CallbackError
SpecCallbacks == Init /\ [][CallbackNext]_vars

LookupNext == OnDataLookup \/ OnEnd
\* the same, with the scenario text still to be sent
InitLookup == StreamInit /\ AuthInit /\ todo = LookupText /\ StoreInit /\ PureIdle
SpecLookup == InitLookup /\ [][LookupNext]_vars

AuthNext ==
  \E r \in Requests :
    \/ authenticateToken(r)
    \/ LoginReturn(r)
    \/ ReloginReturn(r)
    \/ ConversationReturn(r)
    \/ GenerationReturn(r)
SpecAuth == Init /\ [][AuthNext]_vars

StoreNext ==
  \/ \E key \in StoreKeys, value \in StoreValues : set(key, value)
  \/ \E key \in StoreKeys : get(key)
  \/ \E key \in StoreKeys : delete(key)
  \/ cleanup
  \/ Tick
SpecStore == Init /\ [][StoreNext]_vars

\* the state after construction, and a call of the extractor about to be made
InitExtract == StreamInit /\ AuthInit /\ todo = <<>> /\ StoreInit /\ PureInit
SpecExtract == InitExtract /\ [][Extract]_vars

InitExtractAny == StreamInit /\ AuthInit /\ todo = <<>> /\ StoreInit /\ PureInitAny
SpecExtractAny == InitExtractAny /\ [][Extract]_vars

\* the state after construction, and a call of the encoder about to be made
InitEncode ==
  /\ StreamInit /\ AuthInit /\ todo = <<>> /\ StoreInit
  /\ exStr = <<>> /\ exStart = 1 /\ exObject = <<>> /\ exResult = NotCalled
  /\ EncInit
  /\ ParseIdle
  /\ CmdIdle
SpecEncode == InitEncode /\ [][Encode]_vars

\* the state after construction, and a call of the normalizer about to be made
InitParse ==
  /\ StreamInit /\ AuthInit /\ todo = <<>> /\ StoreInit
  /\ exStr = <<>> /\ exStart = 1 /\ exObject = <<>> /\ exResult = NotCalled
  /\ EncIdle
  /\ ParseInit
  /\ CmdIdle
SpecParse == InitParse /\ [][Parse]_vars

\* the same state, and an upstream body about to be answered without streaming
InitReply ==
  /\ StreamInit /\ AuthInit /\ todo = <<>> /\ StoreInit
  /\ exStr = <<>> /\ exStart = 1 /\ exObject = <<>> /\ exResult = NotCalled
  /\ EncIdle
  /\ ParseInit
  /\ CmdIdle
SpecReply == InitReply /\ [][Reply]_vars

\* the state after construction, and a body whose commands are about to be read
InitDetect ==
  /\ StreamInit /\ AuthInit /\ todo = <<>> /\ StoreInit
  /\ exStr = <<>> /\ exStart = 1 /\ exObject = <<>> /\ exResult = NotCalled
  /\ EncIdle
  /\ ParseIdle
  /\ CmdInit
SpecDetect == InitDetect /\ [][Detect]_vars


\* ---------------------------------------------------------------- properties
\* the lines the data handler has been given in full
CompleteLines == LET ls == SplitNL(received) IN SubSeq(ls, 1, Len(ls) - 1)

\* what the upstream put in its lines, told from how the lines were built and
\* not from how the gateway parses them
SentTexts == Fragments \cup {<<"Hel">>}
IsContentLine(line) == \E f \in SentTexts : line \in {ContentLine(f), OkCodeLine(f)}
TextOfLine(line) == CHOOSE f \in SentTexts : line \in {ContentLine(f), OkCodeLine(f)}
IsErrorLine(line) == line = ErrorLine(<<"model offline">>, <<"lo">>)

\* the text fragments of the content lines, in arrival order
FragmentsOf(lines) ==
  LET cl == SelectSeq(lines, IsContentLine) IN [i \in 1..Len(cl) |-> TextOfLine(cl[i])]

IsContentFrame(f) == f.unit = "content"
IsErrorFrame(f) == f.unit = "error"
IsStartFrame(f) == f.unit = "tool_start"
IsArgsFrame(f) == f.unit = "tool_args"
ContentFrames(fs) == SelectSeq(fs, IsContentFrame)
ContentsOf(fs) == [i \in 1..Len(fs) |-> fs[i].content]
ArgumentsOf(fs) == [i \in 1..Len(fs) |-> fs[i].arguments]

NoCallFound(tc) == tc.none \/ Len(tc.calls) = 0

\* the response ended with a terminal frame of this reason and the sentinel
EndsWith(fs, reason) ==
  /\ Len(fs) >= 2
  /\ fs[Len(fs)].unit = "done"
  /\ fs[Len(fs) - 1].unit = "finish"
  /\ fs[Len(fs) - 1].finish_reason = reason

\* C1: single-flight. While the default slot of the token store is empty, at
\* most one login is in flight for the requests carrying the shared-default
\* credential: a second such request waits for the first one's login.
C1_SingleFlight ==
  Cardinality({r \in Requests : req[r].pc = "login"}) <= 1

\* C2: once the aggregator is in tool-candidate mode, no plain content frame
\* has been or is written for that stream before the upstream stream ends.
C2_NoPlainContentWhileBuffering ==
  (isToolCallMode /\ readerState # "ended") => ContentFrames(frames) = <<>>

C2_Witness ==
  /\ isToolCallMode
  /\ readerState = "open"
  /\ Len(CompleteLines) >= 2
  /\ Len(fullContent) > 4

\* C3: fail-open. A stream that ends in tool-candidate mode with no call found
\* by the normalizer has exactly one plain content frame, written at the end,
\* holding the concatenation of every fragment the upstream sent, followed by
\* the terminal frame with reason stop.
C3_FailOpenFlush ==
  (readerState = "ended" /\ isToolCallMode /\ NoCallFound(parseToolCalls(fullContent)))
  => /\ EndsWith(frames, "stop")
     /\ Len(frames) >= 3
     /\ IsContentFrame(frames[Len(frames) - 2])
     /\ frames[Len(frames) - 2].content = Concat(FragmentsOf(CompleteLines))
     /\ Len(ContentFrames(frames)) = 1

C3_Witness ==
  /\ readerState = "ended"
  /\ isToolCallMode
  /\ EndsWith(frames, "stop")
  /\ Len(FragmentsOf(CompleteLines)) >= 2

\* C4: however the lookup text is divided into content lines, the response has
\* no plain content frame, one start frame naming lookup, argument frames that
\* concatenate to {"q":"x"} and a terminal frame with reason tool_calls.
C4_LookupEveryDivision ==
  readerState = "ended"
  => /\ ContentFrames(frames) = <<>>
     /\ Len(SelectSeq(frames, IsStartFrame)) = 1
     /\ SelectSeq(frames, IsStartFrame)[1].name = StrVal(<<"lookup">>)
     /\ Len(SelectSeq(frames, IsArgsFrame)) >= 1
     /\ Concat(ArgumentsOf(SelectSeq(frames, IsArgsFrame)))
          = <<LB, Q, "q", Q, COLON, Q, "x", Q, RB>>
     /\ EndsWith(frames, "tool_calls")

\* C5: a stream that stays in text mode and in which the normalizer finds no
\* call has one plain content frame per content line, in arrival order, each
\* holding that line's text, and then the terminal frame with reason stop.
C5_PlainLinesInOrder ==
  (readerState = "ended" /\ ~isToolCallMode /\ NoCallFound(parseToolCalls(fullContent)))
  => /\ EndsWith(frames, "stop")
     /\ ContentsOf(ContentFrames(frames)) = FragmentsOf(CompleteLines)
     /\ \A i \in 1..(Len(frames) - 2) : IsContentFrame(frames[i]) \/ IsErrorFrame(frames[i])

C5_Witness ==
  /\ readerState = "ended"
  /\ ~isToolCallMode
  /\ ContentsOf(ContentFrames(frames)) = << <<"Hel">>, <<"lo">> >>
  /\ EndsWith(frames, "stop")

\* C6: at the end of the stream the finish reason is tool_calls exactly when
\* the normalizer finds at least one call in the accumulated text, in either
\* mode, and then one start frame per call precedes the terminal frame;
\* otherwise the reason is stop and there is no tool-call frame.
C6_FinishReason ==
  readerState = "ended"
  => \E tc \in {parseToolCalls(fullContent)} :
       \E starts \in {SelectSeq(frames, IsStartFrame)} :
         IF NoCallFound(tc)
         THEN /\ EndsWith(frames, "stop")
              /\ starts = <<>>
              /\ SelectSeq(frames, IsArgsFrame) = <<>>
         ELSE /\ EndsWith(frames, "tool_calls")
              /\ Len(starts) = Len(tc.calls)
              /\ \A i \in 1..Len(starts) : starts[i].name = tc.calls[i].name

C6_Witness ==
  /\ readerState = "ended"
  /\ ~isToolCallMode
  /\ sentContent # <<>>
  /\ EndsWith(frames, "tool_calls")

\* C7: every error line has produced one frame holding its message when its
\* chunk was handled, in either mode; the response stays open and the content
\* lines after it are accumulated like those before it.
C7_ErrorLineInline ==
  /\ ContentsOf(SelectSeq(frames, IsErrorFrame))
       = [i \in 1..Len(SelectSeq(CompleteLines, IsErrorLine)) |->
            <<"Error: ", "model offline">>]
  /\ fullContent = Concat(FragmentsOf(CompleteLines))
  /\ readerState = "open" => ~writableEnded

C7_Witness ==
  /\ readerState = "open"
  /\ isToolCallMode
  /\ Len(CompleteLines) = 3
  /\ IsErrorLine(CompleteLines[2])
  /\ Len(SelectSeq(frames, IsErrorFrame)) = 1
  /\ fullContent = LookupText

\* C8: when a stream finishes with reason tool_calls, no part of the tool-call
\* text was sent as plain content: the text that was not sent as plain content
\* still holds the whole of what the normalizer recognized.
C8_NoToolTextAsPlainContent ==
  (readerState = "ended" /\ EndsWith(frames, "tool_calls"))
  => \E sent \in {Concat(ContentsOf(ContentFrames(frames)))} :
       parseToolCalls(SubSeq(fullContent, Len(sent) + 1, Len(fullContent)))
         = parseToolCalls(fullContent)

\* C9: a streamed response that the client did not cancel ends, whether the
\* upstream stream ended or failed, with exactly one terminal frame followed
\* by the final sentinel.
C9_AlwaysTerminated ==
  (readerState \in {"ended", "errored"} /\ ~clientClosed)
  => /\ EndsWith(frames, "stop") \/ EndsWith(frames, "tool_calls")
     /\ Len(SelectSeq(frames, LAMBDA f : f.unit = "finish")) = 1
     /\ Len(SelectSeq(frames, LAMBDA f : f.unit = "done")) = 1

\* C10: a relogin command from a caller who presented the shared-default
\* credential, unless a login fails, is answered by the relogin reply after the
\* cached token was evicted and one new login stored, with no conversation or
\* generation call.
C10_ReloginWithSentinel ==
  \A r \in Requests :
    (/\ req[r].pc = "done"
     /\ req[r].cred = SENTINEL
     /\ req[r].cmd = "relogin"
     /\ req[r].reply \notin {"401 invalid_api_key", "500"})
    => /\ req[r].reply = "relogged"
       /\ req[r].convs = 0
       /\ req[r].gens = 0

\* ------------------------------------------------------------------ C11
\* the replies of authenticateToken itself
Unauthorized == {"401 missing_api_key", "401 invalid_api_key"}

\* C11: an authenticated request whose last message is a reset word is answered
\* after exactly one conversation-creation call and no generation call; when
\* the creation succeeded the reply names the new id and that id is, at the
\* moment of the reply, the session entry of the request's key, whatever was
\* stored before
C11_ResetCreatesOnce ==
  [][\A r \in Requests :
       (req'[r].cmd = "reset" /\ req[r].pc # "done" /\ req'[r].pc = "done"
        /\ req'[r].reply \notin Unauthorized)
       => /\ req'[r].convs = 1
          /\ req'[r].gens = 0
          /\ req'[r].reply \in {"reset", ServerError}
          /\ req'[r].reply = "reset"
             => /\ req'[r].conv \in ConvIds
                /\ conversationStore'[req'[r].userKey] = req'[r].conv]_vars

\* a reset answered with an id that replaced a different stored one, next to a
\* reset answered for a key without a stored conversation
C11_Witness ==
  \E r, q \in Requests :
    /\ req[r].cmd = "reset" /\ req[r].pc = "done" /\ req[r].reply = "reset"
    /\ req[q].cmd = "chat" /\ req[q].pc = "done" /\ req[q].reply = "completion"
    /\ req[q].userKey = req[r].userKey
    /\ req[q].conv \in ConvIds
    /\ req[q].conv # req[r].conv
    /\ conversationStore[req[r].userKey] = req[r].conv

\* ------------------------------------------------------------------ C12
\* C12: for a request that is neither a reset nor a relogin: when it enters the
\* generation call straight from the handler, a conversation id was stored for
\* its key, it made no creation call and it carries that id; when it enters a
\* creation call, nothing was stored for its key; when the creation returns an
\* id, that is its one creation call, the id is stored under its key and the
\* request goes on to the generation call with it
C12_StoredOrCreated ==
  [][\A r \in Requests :
       req'[r].cmd = "chat"
       => /\ (req[r].pc \in {"new", "login"} /\ req'[r].pc = "gen")
             => /\ conversationStore[req'[r].userKey] # NoConv
                /\ req'[r].conv = conversationStore[req'[r].userKey]
                /\ req'[r].convs = 0
                /\ req'[r].gens = 1
          /\ (req[r].pc \in {"new", "login"} /\ req'[r].pc = "conv")
             => /\ conversationStore[req'[r].userKey] = NoConv
                /\ req'[r].convs = 1
                /\ req'[r].gens = 0
          /\ (req[r].pc = "conv" /\ req'[r].pc = "gen")
             => /\ req'[r].conv \in ConvIds
                /\ conversationStore'[req'[r].userKey] = req'[r].conv
                /\ req'[r].convs = 1
                /\ req'[r].gens = 1
          /\ (req[r].pc = "conv" /\ req'[r].pc # "conv")
             => req'[r].pc = "gen" \/ req'[r].reply = ServerError]_vars

\* one request was served with the stored id, the other created the id it used
C12_Witness ==
  \E r, q \in Requests :
    /\ req[r].cmd = "chat" /\ req[r].pc = "gen" /\ req[r].convs = 0
    /\ req[q].cmd = "chat" /\ req[q].pc \in {"gen", "done"} /\ req[q].convs = 1
    /\ req[q].gens = 1
    /\ req[r].userKey = req[q].userKey
    /\ req[r].conv = req[q].conv

\* ------------------------------------------------------------------ C13
\* C13: at every sweep, a key whose most recent set or successful get lies more
\* than the max age back is absent afterwards, and a key that is present and
\* was set or read within the max age is still present with the same value
C13_TtlEviction ==
  [][cleanup =>
       \A k \in StoreKeys :
         /\ (touchedAt[k] # NoTime /\ now - touchedAt[k] > MaxAge)
            => entries'[k] = Absent
         /\ (entries[k] # Absent /\ now - touchedAt[k] <= MaxAge)
            => entries'[k] = entries[k]]_vars

\* one key was swept away after its max age; the other, stored longer ago than
\* the max age but read since, is still there
C13_Witness ==
  \E k, j \in StoreKeys :
    /\ entries[k] = Absent /\ lastAccess[k] = NoTime
    /\ touchedAt[k] # NoTime /\ now - touchedAt[k] > MaxAge
    /\ entries[j] # Absent
    /\ storedAt[j] < touchedAt[j]
    /\ now - touchedAt[j] <= MaxAge

\* ------------------------------------------------------------------ C14
\* C14: at every sweep, a key that was stored more than the max age ago is
\* absent afterwards, however often it was read since it was stored
C14_FixedWindowFromStore ==
  [][cleanup =>
       \A k \in StoreKeys :
         (storedAt[k] # NoTime /\ now - storedAt[k] > MaxAge)
         => entries'[k] = Absent]_vars

\* ------------------------------------------------------------------ C15
\* C15: called on a text that holds a valid JSON object after arbitrary text
\* without an opening brace, with a start index at or before the object, the
\* extractor returns exactly that object
C15_ExtractsTheObject ==
  exResult.called => exResult.found /\ exResult.s = exObject

ClientErrors == Unauthorized \cup {"400"}

\* C17: a request whose body has no message list is answered with a client
\* error, and no login, conversation-creation or generation call was made for it
C17_NoMessagesClientError ==
  \A r \in Requests :
    (req[r].cmd = "nomessages" /\ req[r].pc = "done")
    => /\ req[r].reply \in ClientErrors
       /\ req[r].logins = 0
       /\ req[r].convs = 0
       /\ req[r].gens = 0

\* ------------------------------------------------------------------ C18
\* C18: a request that arrives without a bearer credential is answered at once
\* with 401 missing_api_key; it makes no login, conversation-creation or
\* generation call and leaves the token store and the session store as they are
C18_MissingCredential ==
  [][\A r \in Requests :
       (req[r].pc = "new" /\ req'[r].pc # "new" /\ req'[r].cred = NoCred)
       => /\ req'[r].pc = "done"
          /\ req'[r].reply = "401 missing_api_key"
          /\ req'[r].logins = 0 /\ req'[r].convs = 0 /\ req'[r].gens = 0
          /\ UNCHANGED <<userTokenStore, conversationStore>>]_vars

\* a request without a credential was turned away while a token and a
\* conversation were stored
C18_Witness ==
  \E r \in Requests :
    /\ req[r].pc = "done" /\ req[r].cred = NoCred
    /\ req[r].reply = "401 missing_api_key"
    /\ userTokenStore # NoToken
    /\ \E k \in UserKeys : conversationStore[k] # NoConv

\* ------------------------------------------------------------------ C19
\* C19: a request that arrives with the shared default while a token is stored
\* takes the stored token and, unless it is a relogin command, makes no login
\* call; with no token stored it makes one login call, and when that login
\* succeeds the obtained token is the request's token and is stored in the
\* default slot, unless the request is a relogin command that goes on to clear
\* the slot
C19_SharedDefaultToken ==
  [][\A r \in Requests :
       req'[r].cred = SENTINEL
       => /\ (req[r].pc = "new" /\ req'[r].pc # "new" /\ userTokenStore # NoToken)
             => /\ req'[r].mossToken = userTokenStore
                /\ req'[r].pc # "login"
                /\ req'[r].cmd # "relogin" => req'[r].logins = 0
          /\ (req[r].pc = "new" /\ req'[r].pc # "new" /\ userTokenStore = NoToken)
             => /\ req'[r].pc = "login"
                /\ req'[r].logins = 1
          /\ (req[r].pc = "login" /\ req'[r].pc # "login"
              /\ req'[r].reply # "401 invalid_api_key")
             => /\ req'[r].mossToken \in Tokens
                /\ req'[r].logins = 1 \/ req'[r].pc = "relogin"
                /\ userTokenStore' = req'[r].mossToken \/ req'[r].pc = "relogin"]_vars

\* one request obtained the token by a login, the other was served with it
\* from the store
C19_Witness ==
  \E r, q \in Requests :
    /\ req[q].cred = SENTINEL /\ req[q].logins = 1 /\ req[q].cmd = "chat"
    /\ req[q].pc = "done" /\ req[q].reply = "completion"
    /\ req[r].cred = SENTINEL /\ req[r].logins = 0 /\ req[r].cmd = "chat"
    /\ req[r].pc = "done" /\ req[r].reply = "completion"
    /\ req[r].mossToken = req[q].mossToken
    /\ userTokenStore = req[r].mossToken

\* ------------------------------------------------------------------ C20
\* C20: no step of a request that carries a credential of its own makes a login
\* call or changes the token store, whatever its last message says, and the
\* credential it presented is its token and its session key
C20_OwnCredentialUntouched ==
  [][\A r \in Requests :
       (req'[r].cred = OwnKey /\ req'[r] # req[r])
       => /\ req'[r].logins = 0
          /\ req'[r].pc \notin {"login", "relogin"}
          /\ req'[r].mossToken = OwnKey
          /\ req'[r].userKey = OwnKey
          /\ UNCHANGED userTokenStore]_vars

\* a relogin word under an own credential was refused while the token another
\* request had logged in for stayed stored
C20_Witness ==
  \E r, q \in Requests :
    /\ req[r].cred = OwnKey /\ req[r].cmd = "relogin"
    /\ req[r].pc = "done" /\ req[r].reply = "refused"
    /\ req[q].cred = SENTINEL /\ req[q].logins = 1
    /\ userTokenStore # NoToken

\* ------------------------------------------------------------------ C21
\* C21: no reply to a client carries an upstream bearer credential
C21_NoCredentialInReply ==
  \A r \in Requests : req[r].echoed = NoToken

\* ------------------------------------------------------------------ C22
\* C22: however the upstream text was divided into chunks, the lines handed on
\* so far are the newline-terminated lines of the text received so far that are
\* not blank, in order, and the buffer holds the text after the last newline
C22_DecoderFraming ==
  /\ decoded = SelectSeq(CompleteLines, NotBlank)
  /\ buffer = SplitNL(received)[Len(SplitNL(received))]

\* the first part of a line waits in the buffer for its rest, after a line was
\* handed on and a blank line was skipped
C22_Witness ==
  /\ buffer # <<>>
  /\ pending # <<>>
  /\ decoded # <<>>
  /\ Len(decoded) < Len(CompleteLines)

\* ------------------------------------------------------------------ C23
\* JSON.parse(line) does not throw
Parses(line) == JSONParse(line).ok

\* C23: while the stream is open the response is not ended, and the frames and
\* the aggregation state are those that the lines that parse produce on their
\* own: a line that fails to parse adds no frame, changes nothing and does not
\* keep the lines after it from being processed
C23_ParseFailureSkipped ==
  readerState = "open"
  => /\ ~writableEnded
     /\ Locals = ProcessLines(InitialLocals, SelectSeq(decoded, Parses))

\* a content line was sent on after a line that did not parse
C23_Witness ==
  /\ readerState = "open"
  /\ \E i, j \in 1..Len(decoded) :
       /\ i < j
       /\ ~Parses(decoded[i])
       /\ IsContentLine(decoded[j])
  /\ \E k \in 1..Len(frames) : IsContentFrame(frames[k])

\* ------------------------------------------------------------------ C24
\* the positions of the start frames, and the argument frames that follow the
\* k-th of them up to the next start frame
StartsIn(fs) == {i \in 1..Len(fs) : IsStartFrame(fs[i])}
StartAt(fs, k) == CHOOSE i \in StartsIn(fs) : Cardinality({j \in StartsIn(fs) : j < i}) = k - 1
SlicesAfter(fs, k) ==
  SubSeq(fs, StartAt(fs, k) + 1,
         IF k < Cardinality(StartsIn(fs)) THEN StartAt(fs, k + 1) - 1 ELSE Len(fs))

\* the frames are, for each call in list order, a start frame and after it at
\* least one argument frame of the same index, the slices of at most ChunkSize
\* characters and all but the last of exactly ChunkSize
WellSliced(fs, calls) ==
  /\ Cardinality(StartsIn(fs)) = Len(calls)
  /\ fs # <<>> /\ IsStartFrame(fs[1])
  /\ \A k \in 1..Len(calls) :
       LET start == fs[StartAt(fs, k)]
           slices == SlicesAfter(fs, k)
       IN /\ start.index = k - 1
          /\ start.id = calls[k].id
          /\ start.name = calls[k].name
          /\ start.arguments = <<>>
          /\ Len(slices) >= 1
          /\ \A n \in 1..Len(slices) :
               /\ IsArgsFrame(slices[n])
               /\ slices[n].index = k - 1
               /\ Len(slices[n].arguments) <= ChunkSize
               /\ n < Len(slices) => Len(slices[n].arguments) = ChunkSize

\* C24: the encoder writes, for each call in list order, one start frame with
\* the call's index, identifier and name and empty arguments, then one or more
\* argument frames of the same index with slices of at most 50 characters, all
\* but the last of exactly 50, whose concatenation is the call's arguments string
C24_ToolCallEncoding ==
  encOut.called
  => /\ WellSliced(encOut.frames, encCalls)
     /\ \A k \in 1..Len(encCalls) :
          Concat(ArgumentsOf(SlicesAfter(encOut.frames, k)))
            = ExpandText(encCalls[k].arguments)

\* ------------------------------------------------------------------ C25
\* C25: every descriptor the normalizer returns has an identifier, a kind, and
\* an arguments string that is valid JSON text
C25_DescriptorsWellFormed ==
  (ptOut.called /\ ~ptOut.none)
  => \A n \in 1..Len(ptOut.calls) :
       /\ ptOut.calls[n].id.t = "str" /\ ptOut.calls[n].id.s # <<>>
       /\ ptOut.calls[n].type.t = "str" /\ ptOut.calls[n].type.s # <<>>
       /\ JSONParse(ptOut.calls[n].arguments).ok

\* ------------------------------------------------------------------ C26
\* the opening braces before index idx whose balanced object reaches idx
EnclosingBraces(content, idx) ==
  {i \in 1..idx : /\ content[i] = LB
                  /\ extractBalancedJson(content, i).found
                  /\ i + Len(extractBalancedJson(content, i).s) > idx}

\* strategy (a) as claimed: from the marker back to the nearest enclosing brace
MarkerEnclosing(content) ==
  LET toolCallsIdx == IndexOf(content, <<Q, "tool_calls", Q>>) IN
  IF toolCallsIdx = 0 \/ EnclosingBraces(content, toolCallsIdx) = {} THEN NoCalls
  ELSE FromCandidate(
         extractBalancedJson(content, Max(EnclosingBraces(content, toolCallsIdx))))

\* C26: parseToolCalls returns the result of the marker strategy (walking back
\* to the nearest enclosing brace) when that succeeds, else that of the fenced
\* block strategy when that succeeds, else that of the bare object strategy
C26_StrategyOrder ==
  ptOut.called
  => [none |-> ptOut.none, calls |-> ptOut.calls, raised |-> ptOut.raised]
       = (IF ptContent = <<>> THEN NoCalls
          ELSE FirstReturn(MarkerEnclosing(ptContent), StrategyFence(ptContent),
                           StrategySingle(ptContent)))

\* ------------------------------------------------------------------ C27
\* the first opening brace of str at or after index from, 0 when there is none
FirstBrace(str, from) ==
  IF \E i \in from..Len(str) : str[i] = LB
  THEN Min({i \in from..Len(str) : str[i] = LB}) ELSE 0

\* the character at m is outside every string literal that opens at or after f
OutsideString(str, f, m) ==
  /\ ~Escaped(str, f, m)
  /\ Cardinality({i \in f..(m - 1) : str[i] = Q /\ ~Escaped(str, f, i)}) % 2 = 0

\* the brace depth after the character at m, counted from f outside strings
DepthAt(str, f, m) ==
  Cardinality({i \in f..m : str[i] = LB /\ OutsideString(str, f, i)})
  - Cardinality({i \in f..m : str[i] = RB /\ OutsideString(str, f, i)})

\* the depth counted from the first brace returns to zero before the text ends
ReturnsToZero(str, from) ==
  /\ FirstBrace(str, from) # 0
  /\ \E m \in FirstBrace(str, from)..Len(str) : DepthAt(str, FirstBrace(str, from), m) = 0

\* C27: when the text ends before the brace depth, counted outside string
\* literals from the first opening brace at or after the start index, returns
\* to zero, the extractor returns null; what it returns has balanced braces
C27_NullWhenUnbalanced ==
  exResult.called
  => /\ ~ReturnsToZero(exStr, exStart) => ~exResult.found
     /\ exResult.found => /\ exResult.s # <<>>
                          /\ exResult.s[1] = LB
                          /\ DepthAt(exResult.s, 1, Len(exResult.s)) = 0

\* ------------------------------------------------------------------ C28
\* C28, as claimed: the length of the text sent as plain content never
\* decreases, never exceeds the length of the accumulated text, and increases
\* only in text mode
C28_SentLengthTextModeOnly ==
  [][/\ Len(sentContent') >= Len(sentContent)
     /\ Len(sentContent') <= Len(fullContent')
     /\ Len(sentContent') > Len(sentContent) => ~isToolCallMode]_vars

\* the end handler sends the whole buffer as plain content
IsFlush ==
  /\ readerState = "open" /\ readerState' = "ended"
  /\ isToolCallMode
  /\ sentContent = <<>>
  /\ sentContent' = toolCallBuffer

\* C28, amended: the length of the text sent as plain content never decreases,
\* never exceeds the length of the accumulated text, and increases only in text
\* mode or when the end handler, having found no call, sends the buffered text
C28_SentLengthMonotone ==
  [][/\ Len(sentContent') >= Len(sentContent)
     /\ Len(sentContent') <= Len(fullContent')
     /\ Len(sentContent') > Len(sentContent) => ~isToolCallMode \/ IsFlush]_vars

\* the buffered text has been sent at the end of a stream in tool-candidate mode
C28_Witness ==
  /\ readerState = "ended"
  /\ isToolCallMode
  /\ sentContent # <<>>
  /\ Len(sentContent) = Len(fullContent)
  /\ Len(ContentFrames(frames)) = 1

\* ------------------------------------------------------------------ C29
\* C29: the mode starts as text; it never goes back from tool-candidate to
\* text; and it goes from text to tool-candidate only in a step of the data
\* handler that extends the accumulated text, with no plain content sent before
\* or in that step, at a point where the trimmed accumulated text begins with a
\* tool-call opening
C29_ModeOneWay ==
  /\ ~isToolCallMode
  /\ [][/\ isToolCallMode => isToolCallMode'
        /\ (~isToolCallMode /\ isToolCallMode')
           => /\ received' # received
              /\ readerState = "open" /\ readerState' = "open"
              /\ sentContent = <<>> /\ sentContent' = <<>>
              /\ Len(fullContent') > Len(fullContent)
              /\ \E n \in (Len(fullContent) + 1)..Len(fullContent') :
                   looksLikeToolCall(SubSeq(fullContent', 1, n))]_vars

\* the mode was entered and is kept while further lines arrive and at the end
C29_Witness ==
  /\ isToolCallMode
  /\ readerState = "ended"
  /\ Len(decoded) >= 2
  /\ \E i \in 1..Len(decoded) : IsErrorLine(decoded[i])

\* ------------------------------------------------------------------ C30
\* the text of the latest message of role user; <<>> when there is none
LatestUserText(msgs) ==
  LET users == SelectSeq(msgs, LAMBDA m : m.role = "user") IN
  IF users = <<>> THEN <<>> ELSE formatMessageContent(users[Len(users)].content)

\* C30: a request is a reset exactly when the trimmed content of its latest
\* user message is a reset word, and a relogin exactly when that content,
\* trimmed and lower-cased, is a relogin word, whatever messages of other
\* roles come after it
C30_LatestUserMessageOnly ==
  cmdOut.called
  => /\ cmdOut.reset <=> \E w \in ResetWords : Trim(LatestUserText(cmdMessages)) = <<w>>
     /\ cmdOut.relogin <=> \E w \in ReloginWords :
                             ToLowerCase(Trim(LatestUserText(cmdMessages))) = <<w>>

\* ------------------------------------------------------------------ C31
\* C31: in the non-streaming reply finish_reason is tool_calls exactly when the
\* message carries a non-empty tool_calls list, and then its content is null;
\* otherwise finish_reason is stop and the message carries the upstream text
\* as content and no tool_calls field
C31_NonStreamFinishReason ==
  nsReply.called
  => /\ nsReply.finish_reason \in {"tool_calls", "stop"}
     /\ nsReply.finish_reason = "tool_calls"
          <=> (nsReply.hasToolCalls /\ nsReply.tool_calls # <<>>)
     /\ nsReply.finish_reason = "tool_calls" => nsReply.contentNull
     /\ nsReply.finish_reason = "stop"
          => /\ ~nsReply.contentNull
             /\ nsReply.content = ptContent
             /\ ~nsReply.hasToolCalls

\* ------------------------------------------------------------------ C32
\* the replies that report a failed upstream call
ErrorReplies == {ServerError, "401 invalid_api_key"}

\* C32: within one request the login, the conversation and the generation
\* endpoint are each called at most once, an answered request makes no further
\* call, and a request that gets an error reply is ended by the step that
\* brought the failure, without another upstream call
C32_NoRetry ==
  /\ [](\A r \in Requests :
         req[r].logins <= 1 /\ req[r].convs <= 1 /\ req[r].gens <= 1)
  /\ [][\A r \in Requests :
          /\ req[r].pc = "done" => req'[r] = req[r]
          /\ (req[r].reply = NoReply /\ req'[r].reply \in ErrorReplies)
               => /\ req'[r].pc = "done"
                  /\ req'[r].logins = req[r].logins
                  /\ req'[r].convs = req[r].convs
                  /\ req'[r].gens = req[r].gens]_vars

\* ------------------------------------------------------------------ C33
\* C33: a call of parseToolCalls returns a list of call descriptors or null and
\* no exception leaves it, whatever the candidates it extracts turn out to be
C33_NeverRaises ==
  ptOut.called
  => /\ ~ptOut.raised
     /\ ptOut.none => ptOut.calls = <<>>

\* the candidate of the marker strategy was no JSON, and the call returned the
\* calls of the fenced block after it
C33_Witness ==
  /\ ptOut.called
  /\ ~ptOut.none
  /\ ptOut.calls # <<>>
  /\ IndexOf(ptContent, <<Q, "tool_calls", Q>>) > 0
  /\ extractBalancedJson(ptContent, 1).found
  /\ ~JSONParse(extractBalancedJson(ptContent, 1).s).ok

\* ------------------------------------------------------------------ C34
\* the kinds of frame a response may begin with
OpeningUnits == {"content", "error", "tool_start"}

\* C34: when the first frame written is a plain content frame, an inline error
\* frame or a tool-call start frame it carries the role marker, and no frame
\* after the first carries it
C34_RoleOnFirstFrameOnly ==
  /\ (frames # <<>> /\ frames[1].unit \in OpeningUnits) => frames[1].role
  /\ \A i \in 2..Len(frames) : ~frames[i].role

\* ------------------------------------------------------------------ C35
\* the final sentinel has been written
TerminalWritten == \E i \in 1..Len(frames) : frames[i].unit = "done"

\* C35: once the terminal frame is written, the lines handed to the aggregator
\* are all the non-blank lines of the text the upstream sent, the text after
\* the last newline included
C35_LastLineProcessed ==
  TerminalWritten => decoded = SelectSeq(SplitNL(received), NotBlank)

\* ------------------------------------------------------------------ C36
\* two requests of the same resolved credential, neither a command, that have
\* both made their generation call
BothGenerate(r1, r2) ==
  /\ r1 # r2
  /\ req[r1].userKey = req[r2].userKey
  /\ req[r1].userKey # NoToken
  /\ req[r1].cmd = "chat" /\ req[r2].cmd = "chat"
  /\ req[r1].gens = 1 /\ req[r2].gens = 1

\* C36: of two such requests, the first of which found no conversation stored,
\* exactly one has called the conversation endpoint, and both generation
\* calls carry the same identifier, the one stored for the credential
C36_OneConversation ==
  \A r1, r2 \in Requests :
    BothGenerate(r1, r2)
    => /\ req[r1].convs + req[r2].convs = 1
       /\ req[r1].conv = req[r2].conv
       /\ req[r1].conv = conversationStore[req[r1].userKey]

\* ------------------------------------------------------------------ C37
\* the step hands exactly one line to the aggregator, an upstream error line
ErrorLineStep ==
  /\ Len(decoded') = Len(decoded) + 1
  /\ IsErrorLine(decoded'[Len(decoded')])

\* C37: a step that processes an upstream error line leaves the accumulated
\* text, the mode, the sent text, the first-frame flag and the tool-call
\* buffer as they were, the content field of the line is not appended, and
\* the one frame it writes is the inline error frame
C37_ErrorLineNoEffect ==
  [][ErrorLineStep
     => /\ fullContent' = fullContent
        /\ isToolCallMode' = isToolCallMode
        /\ sentContent' = sentContent
        /\ isFirstChunk' = isFirstChunk
        /\ toolCallBuffer' = toolCallBuffer
        /\ Len(frames') = Len(frames) + 1
        /\ IsErrorFrame(frames'[Len(frames')])]_vars

\* an error line that carries a content field was the last line processed,
\* after text had been accumulated and sent
C37_Witness ==
  /\ decoded # <<>>
  /\ IsErrorLine(decoded[Len(decoded)])
  /\ Truthy(OptGet(OptGet(JSONParse(decoded[Len(decoded)]).v, <<"msgItem">>),
                   <<"theContent">>))
  /\ fullContent # <<>>
  /\ sentContent # <<>>
  /\ frames # <<>>
  /\ IsErrorFrame(frames[Len(frames)])

\* ------------------------------------------------------------------ C38
\* the step in which the call awaited by request r comes back failed
FailedReturn(r, awaiting, reply) ==
  /\ req[r].pc = awaiting
  /\ req'[r].pc = "done"
  /\ req'[r].reply = reply

\* C38: a failed upstream call changes neither store; after a failed lazy
\* login the token store holds no token, and after a failed conversation
\* creation for a request that found no conversation the credential still
\* has none
C38_FailedCallLeavesStores ==
  [][\A r \in Requests :
       /\ (\/ FailedReturn(r, "login", "401 invalid_api_key")
           \/ FailedReturn(r, "relogin", ServerError)
           \/ FailedReturn(r, "conv", ServerError)
           \/ FailedReturn(r, "gen", ServerError))
          => /\ userTokenStore' = userTokenStore
             /\ conversationStore' = conversationStore
       /\ FailedReturn(r, "login", "401 invalid_api_key") => userTokenStore' = NoToken
       /\ (FailedReturn(r, "conv", ServerError) /\ req[r].cmd # "reset")
          => conversationStore'[req[r].userKey] = NoConv]_vars

\* ------------------------------------------------------------------ C39
\* C39: once the response has been ended, by the final sentinel or otherwise,
\* no callback of the body stream writes a frame, in whatever order the data,
\* end and error callbacks fire afterwards, and the response stays ended
C39_NoFrameAfterEnd ==
  [][writableEnded => (frames' = frames /\ writableEnded')]_vars

\* the response ended with frames written, and a callback has fired after the
\* end: a data event found it ended and destroyed the body stream
C39_Witness ==
  /\ writableEnded
  /\ TerminalWritten
  /\ readerState = "destroyed"

\* ------------------------------------------------------------------ C40
\* C40: the keys that have a last-access timestamp are the keys present in
\* the store
C40_TimestampsMatchKeys ==
  {k \in StoreKeys : lastAccess[k] # NoTime} = {k \in StoreKeys : entries[k] # Absent}

====
